---- MODULE Spec2Model ----
(***************************************************************************)
(* Title parsing and catalog matching of car_auction_server                *)
(* (app/utils/model_matcher.py, app/utils/title_parser.py).                *)
(*                                                                         *)
(* Text is modelled character by character: a Python str is a sequence of  *)
(* one-character symbols.  ASCII characters are themselves ("K", "5",      *)
(* " ", "("); a Hangul syllable is one symbol written in lower-case        *)
(* romanisation of two letters or more ("hyeon" for U+D604), so that the   *)
(* substring tests, regular expressions and dictionary lookups of the      *)
(* code act on the same character boundaries as in Python.                 *)
(***************************************************************************)
EXTENDS Integers, Sequences, FiniteSets, TLC

\* Optional[T]: None, or Some(v) for a value v
None == {}
Some(v) == {v}
The(o) == CHOOSE v \in o : TRUE

Min(S) == CHOOSE x \in S : \A y \in S : x <= y
Max(S) == CHOOSE x \in S : \A y \in S : x >= y

(***************************************************************************)
(* Characters                                                              *)
(***************************************************************************)
Digits == {"0", "1", "2", "3", "4", "5", "6", "7", "8", "9"}

UpperLetters ==
  {"A", "B", "C", "D", "E", "F", "G", "H", "I", "J", "K", "L", "M",
   "N", "O", "P", "Q", "R", "S", "T", "U", "V", "W", "X", "Y", "Z"}

LowerLetters ==
  {"a", "b", "c", "d", "e", "f", "g", "h", "i", "j", "k", "l", "m",
   "n", "o", "p", "q", "r", "s", "t", "u", "v", "w", "x", "y", "z"}

LowerToUpper ==
  [c \in LowerLetters |->
     CASE c = "a" -> "A" [] c = "b" -> "B" [] c = "c" -> "C" [] c = "d" -> "D"
       [] c = "e" -> "E" [] c = "f" -> "F" [] c = "g" -> "G" [] c = "h" -> "H"
       [] c = "i" -> "I" [] c = "j" -> "J" [] c = "k" -> "K" [] c = "l" -> "L"
       [] c = "m" -> "M" [] c = "n" -> "N" [] c = "o" -> "O" [] c = "p" -> "P"
       [] c = "q" -> "Q" [] c = "r" -> "R" [] c = "s" -> "S" [] c = "t" -> "T"
       [] c = "u" -> "U" [] c = "v" -> "V" [] c = "w" -> "W" [] c = "x" -> "X"
       [] c = "y" -> "Y" [] c = "z" -> "Z"]

\* str.upper() on one character (Hangul, digits and punctuation have no case)
UpperChar(c) == IF c \in LowerLetters THEN LowerToUpper[c] ELSE c

\* \s of the re module, as far as titles contain it
Whitespace == {" "}

\* [A-Za-z0-9]
AsciiAlnum == Digits \cup UpperLetters \cup LowerLetters

(***************************************************************************)
(* Strings                                                                 *)
(***************************************************************************)
\* text[i:j] with 1-based inclusive bounds
Slice(text, i, j) == IF j < i THEN << >> ELSE SubSeq(text, i, j)

\* text.upper()
Upper(text) == [i \in 1..Len(text) |-> UpperChar(text[i])]

\* text.startswith(sub, pos)
OccursAt(sub, text, i) ==
  /\ i >= 1
  /\ i + Len(sub) - 1 <= Len(text)
  /\ \A k \in 1..Len(sub) : text[i + k - 1] = sub[k]

\* the positions from i on at which sub occurs in text
Occurrences(sub, text, i) ==
  {j \in i..(Len(text) - Len(sub) + 1) : OccursAt(sub, text, j)}

\* `sub in text`
Contains(sub, text) == Occurrences(sub, text, 1) # {}

\* text.find(sub), 1-based; 0 when absent
Find(sub, text) ==
  IF Contains(sub, text) THEN Min(Occurrences(sub, text, 1)) ELSE 0

\* text.strip()
Strip(text) ==
  LET solid == {i \in 1..Len(text) : text[i] \notin Whitespace}
  IN  IF solid = {} THEN << >> ELSE SubSeq(text, Min(solid), Max(solid))

\* text.lstrip()
LStrip(text) ==
  LET solid == {i \in 1..Len(text) : text[i] \notin Whitespace}
  IN  IF solid = {} THEN << >> ELSE SubSeq(text, Min(solid), Len(text))

\* the length of the first word of a text without leading whitespace
WordLen(t) ==
  LET gaps == {i \in 1..Len(t) : t[i] \in Whitespace}
  IN  IF gaps = {} THEN Len(t) ELSE Min(gaps) - 1

\* a first word and what follows it, as the list split(maxsplit=1) returns
SplitParts(first, rest) ==
  IF first = << >> THEN << >>
  ELSE IF rest = << >> THEN << first >>
  ELSE << first, rest >>

SplitAt(t, n) == SplitParts(Slice(t, 1, n), LStrip(Slice(t, n + 1, Len(t))))

SplitStripped(t) == SplitAt(t, WordLen(t))

\* text.split(maxsplit=1): <<>>, <<first>> or <<first, rest>>
SplitFirst(text) == SplitStripped(LStrip(text))

\* text.replace(sub, "") from position i on: every non-overlapping
\* occurrence, from the left, removed
RECURSIVE RemoveAllFrom(_, _, _)
RemoveNext(sub, text, i, found) ==
  IF sub = << >> \/ found = {} THEN Slice(text, i, Len(text))
  ELSE Slice(text, i, Min(found) - 1)
         \o RemoveAllFrom(sub, text, Min(found) + Len(sub))

RemoveAllFrom(sub, text, i) ==
  RemoveNext(sub, text, i, Occurrences(sub, text, i))

RemoveAll(sub, text) == RemoveAllFrom(sub, text, 1)

\* re.sub(r'\s+', ' ', text): every run of whitespace becomes one space
CollapseSpaces(text) ==
  LET kept == SelectSeq([i \in 1..Len(text) |-> i],
                        LAMBDA i : ~(/\ text[i] \in Whitespace
                                     /\ i > 1
                                     /\ text[i - 1] \in Whitespace))
  IN  [k \in 1..Len(kept) |->
         IF text[kept[k]] \in Whitespace THEN " " ELSE text[kept[k]]]

(***************************************************************************)
(* Regular expressions of the re module.  A pattern is a sequence of       *)
(* elements.  A class element matches between lo and hi characters         *)
(* (hi = -1: unbounded) that lie in cs (neg = FALSE) or outside cs         *)
(* (neg = TRUE), greedily and with backtracking as in re; a word element   *)
(* matches a fixed string, ci: ignoring case.                              *)
(***************************************************************************)
Cls(s, lo, hi)    == [word |-> << >>, ci |-> FALSE, cs |-> s, neg |-> FALSE,
                      lo |-> lo, hi |-> hi]
NotCls(s, lo, hi) == [word |-> << >>, ci |-> FALSE, cs |-> s, neg |-> TRUE,
                      lo |-> lo, hi |-> hi]
Word(w)   == [word |-> w, ci |-> FALSE, cs |-> {}, neg |-> FALSE,
              lo |-> Len(w), hi |-> Len(w)]
WordCI(w) == [word |-> w, ci |-> TRUE, cs |-> {}, neg |-> FALSE,
              lo |-> Len(w), hi |-> Len(w)]
Lit(c) == Word(<< c >>)

IsWord(e) == e.word # << >>

\* whether character c of the text matches class element e
ElemMatches(e, c) == (c \in e.cs) # e.neg

\* whether word element e matches at position i
WordMatches(e, text, i) ==
  /\ i + Len(e.word) - 1 <= Len(text)
  /\ \A k \in 1..Len(e.word) :
       IF e.ci THEN UpperChar(text[i + k - 1]) = UpperChar(e.word[k])
       ELSE text[i + k - 1] = e.word[k]

\* the longest run class element e can take at position i
RunLen(e, text, i) ==
  LET stops == {j \in i..Len(text) : ~ElemMatches(e, text[j])}
      free == IF stops = {} THEN Len(text) - i + 1 ELSE Min(stops) - i
  IN  IF e.hi # -1 /\ free > e.hi THEN e.hi ELSE free

NoMatch == [ok |-> FALSE, start |-> 0, ends |-> << >>]

\* the match of an element over n characters from i, followed by the match
\* r of the rest of the pattern
Extend(i, n, r) ==
  IF r.ok THEN [ok |-> TRUE, start |-> i, ends |-> << i + n - 1 >> \o r.ends]
  ELSE NoMatch

\* Match elements k.. of pat at position i.  ends[j] is the index of the
\* last character matched by element k+j-1 (i-1 for an empty run).  A class
\* element takes the longest run with which the rest of the pattern matches.
RECURSIVE MatchFrom(_, _, _, _)
LongestRun(pat, k, text, i, runs) ==
  IF runs = {} THEN NoMatch
  ELSE Extend(i, Max(runs), MatchFrom(pat, k + 1, text, i + Max(runs)))

MatchFrom(pat, k, text, i) ==
  IF k > Len(pat) THEN [ok |-> TRUE, start |-> i, ends |-> << >>]
  ELSE IF IsWord(pat[k])
  THEN IF WordMatches(pat[k], text, i)
       THEN Extend(i, Len(pat[k].word),
                   MatchFrom(pat, k + 1, text, i + Len(pat[k].word)))
       ELSE NoMatch
  ELSE LongestRun(pat, k, text, i,
                  {n \in pat[k].lo..RunLen(pat[k], text, i) :
                     MatchFrom(pat, k + 1, text, i + n).ok})

\* index of the last character of a match (start - 1 for an empty match)
MatchEnd(m) == IF m.ends = << >> THEN m.start - 1 ELSE m.ends[Len(m.ends)]

\* re.match(pat, text): anchored at the start
ReMatch(pat, text) == MatchFrom(pat, 1, text, 1)

\* the first of the alternatives `good` at position i
FirstAlt(pats, text, i, good) ==
  IF good = {} THEN NoMatch ELSE MatchFrom(pats[Min(good)], 1, text, i)

\* an alternation p1|p2|... at position i: the first alternative that matches
MatchAltAt(pats, text, i) ==
  FirstAlt(pats, text, i,
           {a \in 1..Len(pats) : MatchFrom(pats[a], 1, text, i).ok})

\* the match at the leftmost of the positions `good`
LeftmostAlt(pats, text, good) ==
  IF good = {} THEN NoMatch ELSE MatchAltAt(pats, text, Min(good))

\* re.search over an alternation from position i on: the leftmost position
\* where an alternative matches
SearchAltFrom(pats, text, i) ==
  LeftmostAlt(pats, text,
              {j \in i..(Len(text) + 1) : MatchAltAt(pats, text, j).ok})

\* re.search(pat, text)
ReSearch(pat, text) == SearchAltFrom(<< pat >>, text, 1)

\* re.sub(p1|p2|..., "", text) from position i on: every non-overlapping
\* match, from the left, removed (no pattern here matches the empty string)
RECURSIVE SubAltFrom(_, _, _)
SubNext(pats, text, i, m) ==
  IF ~m.ok \/ MatchEnd(m) < m.start THEN Slice(text, i, Len(text))
  ELSE Slice(text, i, m.start - 1) \o SubAltFrom(pats, text, MatchEnd(m) + 1)

SubAltFrom(pats, text, i) == SubNext(pats, text, i, SearchAltFrom(pats, text, i))

ReSub(pat, text) == SubAltFrom(<< pat >>, text, 1)

\* what is left of the text after a match r at its start
AfterMatch(text, r) ==
  IF r.ok THEN Slice(text, MatchEnd(r) + 1, Len(text)) ELSE text

\* re.sub of a pattern anchored with ^: at most one removal, at the start
ReSubAnchored(pat, text) == AfterMatch(text, ReMatch(pat, text))

(***************************************************************************)
(* Data: alias tables, catalogs, titles                                    *)
(***************************************************************************)
\* the Hangul syllables (and the roman numeral U+2162, "III") in use
Hangul ==
  {"III", "aa", "bal", "beu", "bo", "bong", "dae", "deu", "di", "do",
   "dong", "eob", "es", "ga", "geu", "gi", "go", "gug", "gwan", "gyeong",
   "ha", "han", "hwa", "hwi", "hyeon", "ii", "il", "in", "ja", "jae",
   "je", "jel", "jeo", "jeon", "ji", "jyeo", "ka", "keu", "mul", "na",
   "ne", "ni", "no", "nyeon", "ol", "oo", "pa", "peul", "po", "ra",
   "raen", "ran", "re", "reg", "ren", "reo", "reu", "ri", "rig", "rin",
   "sam", "se", "seong", "seu", "seul", "si", "so", "sol", "sso", "su",
   "swe", "ta", "te", "teo", "teu", "to", "uu", "yeong", "yong", "yu",
   "del", "deo", "hyeong", "mo", "nyu", "sin"}

\* a dict is a sequence of <<key, value>> pairs in insertion order
DictHas(d, k) == \E i \in 1..Len(d) : d[i][1] = k
DictGet(d, k, default) ==
  IF DictHas(d, k) THEN d[CHOOSE i \in 1..Len(d) : d[i][1] = k][2] ELSE default
\* d[k] = v: a new key goes last, an old key keeps its place
DictSet(d, k, v) ==
  IF DictHas(d, k)
  THEN [i \in 1..Len(d) |-> IF d[i][1] = k THEN << k, v >> ELSE d[i]]
  ELSE Append(d, << k, v >>)

\* MANUFACTURER_LABEL_MAP of model_matcher.py, a dict in insertion order as
\* <<key, value>> pairs: the entries for Hyundai, Kia, Genesis, Chevrolet,
\* Chevrolet(Korea GM), Renault Samsung, Renault(Samsung), BMW, Audi and Tesla
MANUFACTURER_LABEL_MAP ==
  <<
    << <<"hyeon", "dae">>, <<"hyeon", "dae">> >>,
    << <<"gi", "aa">>, <<"gi", "aa">> >>,
    << <<"je", "ne", "si", "seu">>, <<"je", "ne", "si", "seu">> >>,
    << <<"swe", "bo", "re">>, <<"swe", "bo", "re">> >>,
    << <<"swe", "bo", "re", "(", "han", "gug", "G", "M", ")">>, <<"swe", "bo", "re">> >>,
    << <<"reu", "no", "sam", "seong">>, <<"reu", "no", "sam", "seong">> >>,
    << <<"reu", "no", "(", "sam", "seong", ")">>, <<"reu", "no", "sam", "seong">> >>,
    << <<"B", "M", "W">>, <<"B", "M", "W">> >>,
    << <<"aa", "uu", "di">>, <<"aa", "uu", "di">> >>,
    << <<"te", "seul", "ra">>, <<"te", "seul", "ra">> >>
  >>
\* MODEL_VARIATIONS of model_matcher.py in insertion order: the entries whose
\* key occurs in one of the titles below, and their neighbours
MODEL_VARIATIONS ==
  <<
    << <<"geu", "raen", "jyeo">>, <<"geu", "raen", "jeo">> >>,
    << <<"S", "O", "N", "A", "T", "A">>, <<"sso", "na", "ta">> >>,
    << <<"K", "5">>, <<"K", "5">> >>,
    << <<"re", "ii">>, <<"re", "ii">> >>,
    << <<"O", "P", "T", "I", "M", "A">>, <<"K", "5">> >>,
    << <<"X", "3">>, <<"X", "3">> >>,
    << <<"A", "4">>, <<"A", "4">> >>,
    << <<"M", "3">>, <<"M", "3">> >>
  >>
\* MANUFACTURER_ALIASES of title_parser.py: the same manufacturers
MANUFACTURER_ALIASES ==
  <<
    << <<"hyeon", "dae">>, <<"hyeon", "dae">> >>,
    << <<"gi", "aa">>, <<"gi", "aa">> >>,
    << <<"je", "ne", "si", "seu">>, <<"je", "ne", "si", "seu">> >>,
    << <<"swe", "bo", "re">>, <<"swe", "bo", "re">> >>,
    << <<"swe", "bo", "re", "(", "han", "gug", "G", "M", ")">>, <<"swe", "bo", "re">> >>,
    << <<"reu", "no", "sam", "seong">>, <<"reu", "no", "sam", "seong">> >>,
    << <<"reu", "no", "(", "sam", "seong", ")">>, <<"reu", "no", "sam", "seong">> >>,
    << <<"B", "M", "W">>, <<"B", "M", "W">> >>,
    << <<"aa", "uu", "di">>, <<"aa", "uu", "di">> >>,
    << <<"te", "seul", "ra">>, <<"te", "seul", "ra">> >>
  >>
\* FUEL_TYPE_ALIASES of title_parser.py, every entry, in insertion order
FUEL_TYPE_ALIASES ==
  <<
    << <<"ga", "sol", "rin">>, <<"ga", "sol", "rin">> >>,
    << <<"hwi", "bal", "yu">>, <<"ga", "sol", "rin">> >>,
    << <<"G", "D", "I">>, <<"ga", "sol", "rin">> >>,
    << <<"G", "D", "i">>, <<"ga", "sol", "rin">> >>,
    << <<"T", "-", "G", "D", "I">>, <<"ga", "sol", "rin">> >>,
    << <<"teo", "bo">>, <<"ga", "sol", "rin">> >>,
    << <<"di", "jel">>, <<"di", "jel">> >>,
    << <<"gyeong", "yu">>, <<"di", "jel">> >>,
    << <<"C", "R", "D", "i">>, <<"di", "jel">> >>,
    << <<"V", "G", "T">>, <<"di", "jel">> >>,
    << <<"e", "-", "V", "G", "T">>, <<"di", "jel">> >>,
    << <<"T", "D", "I">>, <<"di", "jel">> >>,
    << <<"L", "P", "G">>, <<"L", "P", "G">> >>,
    << <<"L", "P", "I">>, <<"L", "P", "G">> >>,
    << <<"L", "P", "e">>, <<"L", "P", "G">> >>,
    << <<"jeon", "gi">>, <<"jeon", "gi">> >>,
    << <<"il", "reg", "teu", "rig">>, <<"jeon", "gi">> >>,
    << <<"E", "V">>, <<"jeon", "gi">> >>,
    << <<"F", "C", "E", "V">>, <<"su", "so">> >>,
    << <<"ha", "ii", "beu", "ri", "deu">>, <<"ha", "ii", "beu", "ri", "deu">> >>,
    << <<"H", "E", "V">>, <<"ha", "ii", "beu", "ri", "deu">> >>,
    << <<"(", "H", ")">>, <<"ha", "ii", "beu", "ri", "deu">> >>,
    << <<"(", "H", "E", "V", ")">>, <<"ha", "ii", "beu", "ri", "deu">> >>,
    << <<"P", "H", "E", "V">>, <<"peul", "reo", "geu", "in", "ha", "ii", "beu", "ri", "deu">> >>,
    << <<"(", "P", "H", "E", "V", ")">>, <<"peul", "reo", "geu", "in", "ha", "ii", "beu", "ri", "deu">> >>,
    << <<"su", "so">>, <<"su", "so">> >>
  >>
\* COMPOUND_MODEL_NAMES of title_parser.py, every entry, in insertion order
COMPOUND_MODEL_NAMES ==
  <<
    << <<"geu", "raen", "deu", " ", "seu", "ta", "reg", "seu">>, <<"geu", "raen", "deu", "seu", "ta", "reg", "seu">> >>,
    << <<"geu", "raen", "jeo", " ", "I", "G">>, <<"geu", "raen", "jeo">> >>,
    << <<"seu", "ta", "reg", "seu">>, <<"seu", "ta", "reg", "seu">> >>,
    << <<"po", "teo", " ", "2">>, <<"po", "teo", "2">> >>,
    << <<"po", "teo", " ", "I", "I">>, <<"po", "teo", "2">> >>,
    << <<"po", "teo", "I", "I">>, <<"po", "teo", "2">> >>,
    << <<"bong", "go", " ", "3">>, <<"bong", "go", "3">> >>,
    << <<"bong", "go", " ", "I", "I", "I">>, <<"bong", "go", "3">> >>,
    << <<"bong", "go", "III">>, <<"bong", "go", "3">> >>,
    << <<"bong", "go", "III", "hwa", "mul">>, <<"bong", "go", "3">> >>,
    << <<"ol", "ran", "do">>, <<"ol", "ran", "do">> >>
  >>

\* car_models.json, one generation of the catalog
CatalogA ==
  [domestic |-> <<
    [id |-> "hd", label |-> <<"hyeon", "dae">>, models |-> <<
       [id |-> "hd_sonata", model |-> <<"sso", "na", "ta">>,
        trims |-> <<
            [id |-> "sn_dn8", trim |-> <<"sso", "na", "ta", " ", "(", "D", "N", "8", ")", "(", "1", "9", "nyeon", "~", "2", "3", "nyeon", ")">>],
            [id |-> "sn_hev", trim |-> <<"sso", "na", "ta", " ", "ha", "ii", "beu", "ri", "deu", " ", "(", "D", "N", "8", ")", "(", "1", "9", "nyeon", "~", "2", "3", "nyeon", ")">>],
            [id |-> "sn_edge", trim |-> <<"sso", "na", "ta", " ", "di", " ", "es", "ji", "(", "2", "3", "nyeon", "~", "hyeon", "jae", ")">>] >>] >>],
    [id |-> "kia", label |-> <<"gi", "aa">>, models |-> <<
       [id |-> "kia_k5", model |-> <<"K", "5">>,
        trims |-> <<
            [id |-> "k5_2", trim |-> <<"K", "5", " ", "2", "se", "dae", "(", "1", "5", "nyeon", "~", "1", "9", "nyeon", ")">>] >>],
       [id |-> "kia_ray", model |-> <<"re", "ii">>,
        trims |-> <<
             >>] >>],
    [id |-> "rs", label |-> <<"reu", "no", "sam", "seong">>, models |-> <<
       [id |-> "rs_xm3", model |-> <<"X", "M", "3">>,
        trims |-> <<
            [id |-> "xm3_1", trim |-> <<"X", "M", "3", " ", "(", "2", "0", "nyeon", "~", "hyeon", "jae", ")">>] >>] >>] >>,
   import |-> <<
    [id |-> "bmw", label |-> <<"B", "M", "W">>, models |-> <<
       [id |-> "bmw_m3", model |-> <<"M", "3">>,
        trims |-> <<
            [id |-> "m3_1", trim |-> <<"M", "3", " ", "(", "1", "4", "nyeon", "~", "2", "0", "nyeon", ")">>] >>] >>],
    [id |-> "audi", label |-> <<"aa", "uu", "di">>, models |-> <<
       [id |-> "audi_a4", model |-> <<"A", "4">>,
        trims |-> <<
            [id |-> "a4_b8", trim |-> <<"A", "4", " ", "(", "B", "8", ")", "(", "0", "8", "nyeon", "~", "1", "5", "nyeon", ")">>],
            [id |-> "a4_b9", trim |-> <<"A", "4", " ", "(", "B", "9", ")", "(", "1", "6", "nyeon", "~", "hyeon", "jae", ")">>] >>] >>] >>]
\* car_models.json after an update: every id renumbered, fewer models
CatalogB ==
  [domestic |-> <<
    [id |-> "hd_v2", label |-> <<"hyeon", "dae">>, models |-> <<
       [id |-> "hd_sonata_v2", model |-> <<"sso", "na", "ta">>,
        trims |-> <<
            [id |-> "sn_hev_v2", trim |-> <<"sso", "na", "ta", " ", "ha", "ii", "beu", "ri", "deu", " ", "(", "D", "N", "8", ")", "(", "1", "9", "nyeon", "~", "2", "3", "nyeon", ")">>] >>] >>],
    [id |-> "kia_v2", label |-> <<"gi", "aa">>, models |-> <<
       [id |-> "kia_k5_v2", model |-> <<"K", "5">>,
        trims |-> <<
            [id |-> "k5_3_v2", trim |-> <<"K", "5", " ", "3", "se", "dae", "(", "1", "9", "nyeon", "~", "hyeon", "jae", ")">>] >>] >>] >>,
   import |-> <<
    [id |-> "audi_v2", label |-> <<"aa", "uu", "di">>, models |-> <<
       [id |-> "audi_a4_v2", model |-> <<"A", "4">>,
        trims |-> <<
            [id |-> "a4_b9_v2", trim |-> <<"A", "4", " ", "(", "B", "9", ")", "(", "1", "6", "nyeon", "~", "hyeon", "jae", ")">>] >>] >>] >>]

\* what _load_car_models returns when car_models.json does not exist
EmptyCatalog == [domestic |-> << >>, import |-> << >>]

\* Titles (Post Title of a CSV row)
T_HyundaiK5 ==
  <<"hyeon", "dae", " ", "K", "5", " ", "2", ".", "0">>
T_KiaK5 ==
  <<"gi", "aa", " ", "K", "5", " ", "2", ".", "0">>
T_RenaultXM3 ==
  <<"reu", "no", "sam", "seong", " ", "X", "M", "3", " ", "1", ".", "6", " ", "T", "C", "e">>
T_BracketKiaHev ==
  <<"[", "gi", "aa", "]", " ", "K", "5", " ", "ha", "ii", "beu", "ri", "deu">>
T_HyundaiPony ==
  <<"hyeon", "dae", " ", "po", "ni", " ", "1", ".", "4">>
T_Pony ==
  <<"po", "ni", " ", "1", ".", "4">>
T_SonataHev ==
  <<"hyeon", "dae", " ", "sso", "na", "ta", " ", "ha", "ii", "beu", "ri", "deu", " ", "(", "2", "1", "nyeon", "~", "2", "3", "nyeon", ")">>
T_KiaRay ==
  <<"gi", "aa", " ", "re", "ii", " ", "1", "0", "0", "0", "c", "c">>
T_XM3 ==
  <<"X", "M", "3", " ", "1", ".", "6", " ", "T", "C", "e">>

\* Titles with two year ranges, with a generation code beside a year range,
\* and with the keyword N
TT_TwoRanges ==
  <<"aa", "uu", "di", " ", "A", "4", " ", "(", "0", "8", "nyeon", "~", "1", "5", "nyeon", ")", " ", "B", "9", " ", "(", "1", "6", "nyeon", "~", "hyeon", "jae", ")">>
TT_CodeVsYear ==
  <<"aa", "uu", "di", " ", "A", "4", " ", "(", "B", "9", ")", " ", "(", "0", "8", "nyeon", "~", "1", "5", "nyeon", ")">>
TT_SonataN ==
  <<"hyeon", "dae", " ", "sso", "na", "ta", " ", "N", " ", "ra", "in">>

(***************************************************************************)
(* model_matcher.py                                                        *)
(***************************************************************************)
\* truth value of an Optional[str] in `if x:` (None and "" are false)
Truthy(o) == o # None /\ The(o) # << >>

\* MatchResult(), every field None
MatchResult ==
  [manufacturer_id |-> None, manufacturer_name |-> None,
   model_id |-> None, model_name |-> None,
   trim_id |-> None, trim_name |-> None]

\* r'\((\d{2})년~([^\)]+)\)'
TRIM_YEAR_PATTERN ==
  << Lit("("), Cls(Digits, 2, 2), Lit("nyeon"), Lit("~"),
     NotCls({")"}, 1, -1), Lit(")") >>

\* group(1) of a TRIM_YEAR_PATTERN match: the two digits of the start year
YearGroup1(text, m) == Slice(text, m.start + 1, m.ends[2])

DigitVal(c) ==
  CASE c = "0" -> 0 [] c = "1" -> 1 [] c = "2" -> 2 [] c = "3" -> 3
    [] c = "4" -> 4 [] c = "5" -> 5 [] c = "6" -> 6 [] c = "7" -> 7
    [] c = "8" -> 8 [] c = "9" -> 9

\* int(s) for a string of digits
RECURSIVE ParseInt(_)
ParseInt(s) ==
  IF s = << >> THEN 0
  ELSE 10 * ParseInt(SubSeq(s, 1, Len(s) - 1)) + DigitVal(s[Len(s)])

Abs(n) == IF n < 0 THEN -n ELSE n

\* the manufacturers of both categories, "domestic" first
AllManufacturers(data) == data.domestic \o data.import

RECURSIVE IndexManufacturers(_, _)
IndexManufacturers(mfrs, index) ==
  IF mfrs = << >> THEN index
  ELSE IndexManufacturers(Tail(mfrs), DictSet(index, Head(mfrs).label, Head(mfrs)))

\* _build_manufacturer_index over the loaded data: label -> manufacturer
_build_manufacturer_index(data) ==
  IndexManufacturers(AllManufacturers(data), << >>)

RECURSIVE IndexModels(_, _, _)
IndexModels(mfr, models, index) ==
  IF models = << >> THEN index
  ELSE LET model == Head(models)
           old == DictGet(index, model.model, << >>)
       IN  IndexModels(mfr, Tail(models),
                       DictSet(index, model.model, Append(old, << mfr, model >>)))

RECURSIVE IndexAllModels(_, _)
IndexAllModels(mfrs, index) ==
  IF mfrs = << >> THEN index
  ELSE IndexAllModels(Tail(mfrs), IndexModels(Head(mfrs), Head(mfrs).models, index))

\* _build_model_index over the loaded data: model name -> [(manufacturer, model)]
_build_model_index(data) == IndexAllModels(AllManufacturers(data), << >>)

GenesisCodes ==
  << <<"G", "7", "0">>, <<"G", "8", "0">>, <<"G", "9", "0">>,
     <<"G", "V", "6", "0">>, <<"G", "V", "7", "0">>, <<"G", "V", "8", "0">> >>

\* r'GENESIS\s+(G70|...|GV80)|제네시스\s+(G70|...|GV80)' with re.IGNORECASE
GenesisPatterns ==
  [i \in 1..12 |->
     << IF i <= 6 THEN WordCI(<<"G", "E", "N", "E", "S", "I", "S">>)
                  ELSE WordCI(<<"je", "ne", "si", "seu">>),
        Cls(Whitespace, 1, -1),
        WordCI(GenesisCodes[IF i <= 6 THEN i ELSE i - 6]) >>]

\* r'TESLA\s+(MODEL|모델)' with re.IGNORECASE
TeslaPatterns ==
  << << WordCI(<<"T", "E", "S", "L", "A">>), Cls(Whitespace, 1, -1),
        WordCI(<<"M", "O", "D", "E", "L">>) >>,
     << WordCI(<<"T", "E", "S", "L", "A">>), Cls(Whitespace, 1, -1),
        WordCI(<<"mo", "del">>) >> >>

\* r'^\[([^\]]+)\]\s*'
BracketPattern ==
  << Lit("["), NotCls({"]"}, 1, -1), Lit("]"), Cls(Whitespace, 0, -1) >>

\* r'^([^\(]+)(\([^\)]+\))?': with the optional group, then without it
ParenPatterns ==
  << << NotCls({"("}, 1, -1), Lit("("), NotCls({")"}, 1, -1), Lit(")") >>,
     << NotCls({"("}, 1, -1) >> >>

\* the first-word rule as it would be with the part before the parenthesis
\* looked up alone
WordLabelBareOnly(title, aliases, full, base, remaining) ==
  IF DictHas(aliases, base)
  THEN [label |-> Some(DictGet(aliases, base, base)), remaining |-> remaining]
  ELSE [label |-> None, remaining |-> title]

\* the label of a first word whose whole match `full`, or else whose part
\* before the parenthesis `base`, is a key of the alias table
WordLabel(title, aliases, full, base, remaining) ==
  IF DictHas(aliases, full)
  THEN [label |-> Some(DictGet(aliases, full, full)), remaining |-> remaining]
  ELSE IF DictHas(aliases, base)
  THEN [label |-> Some(DictGet(aliases, base, base)), remaining |-> remaining]
  ELSE [label |-> None, remaining |-> title]

\* the "manufacturer model" form: the first word against the alias table
FirstWordLabel(title, aliases, parts, paren_match) ==
  IF ~paren_match.ok THEN [label |-> None, remaining |-> title]
  ELSE WordLabel(title, aliases,
                 Slice(parts[1], 1, MatchEnd(paren_match)),
                 Slice(parts[1], 1, paren_match.ends[1]),
                 IF Len(parts) > 1 THEN parts[2] ELSE << >>)

\* the "[manufacturer]" form, when bracket_match matched
BracketLabel(title, aliases, bracket_match, raw) ==
  [label |-> Some(DictGet(aliases, raw, raw)),
   remaining |-> Slice(title, MatchEnd(bracket_match) + 1, Len(title))]

LabelFrom(title, aliases, bracket_match, parts) ==
  IF bracket_match.ok
  THEN BracketLabel(title, aliases, bracket_match,
                    Slice(title, 2, bracket_match.ends[2]))
  ELSE IF parts = << >> THEN [label |-> None, remaining |-> title]
  ELSE FirstWordLabel(title, aliases, parts,
                      MatchAltAt(ParenPatterns, parts[1], 1))

\* The bracket and first-word rules, shared by _extract_manufacturer_from_title
\* (lines 545-568) and title_parser._extract_manufacturer, over the alias
\* table of each: [label, remaining]
ExtractByPrefix(title, aliases) ==
  LabelFrom(title, aliases, ReMatch(BracketPattern, title), SplitFirst(title))

\* _extract_manufacturer_from_title(title): [label, remaining]
_extract_manufacturer_from_title(title) ==
  IF SearchAltFrom(GenesisPatterns, title, 1).ok
  THEN [label |-> Some(<<"je", "ne", "si", "seu">>), remaining |-> title]
  ELSE IF SearchAltFrom(TeslaPatterns, title, 1).ok
  THEN [label |-> Some(<<"te", "seul", "ra">>), remaining |-> title]
  ELSE ExtractByPrefix(title, MANUFACTURER_LABEL_MAP)

\* the modifier prefixes of _normalize_model_text and _extract_model_and_trim,
\* each anchored with ^ and applied with re.IGNORECASE, in this order
ModelPrefixPatterns ==
  << << Lit("deo"), Cls(Whitespace, 0, -1), Lit("nyu"), Cls(Whitespace, 0, -1) >>,
     << Lit("deo"), Lit("nyu"), Cls(Whitespace, 0, -1) >>,
     << Lit("ol"), Cls(Whitespace, 0, -1), Lit("nyu"), Cls(Whitespace, 0, -1) >>,
     << Lit("di"), Cls(Whitespace, 0, -1), Lit("ol"), Cls(Whitespace, 0, -1),
        Lit("nyu"), Cls(Whitespace, 0, -1) >>,
     << Lit("sin"), Lit("hyeong"), Cls(Whitespace, 0, -1) >>,
     << WordCI(<<"N", "E", "W">>), Cls(Whitespace, 1, -1) >>,
     << Lit("nyu"), Cls(Whitespace, 0, -1) >>,
     << WordCI(<<"N", "F">>), Cls(Whitespace, 1, -1) >>,
     << WordCI(<<"L", "F">>), Cls(Whitespace, 1, -1) >>,
     << WordCI(<<"Y", "F">>), Cls(Whitespace, 1, -1) >> >>

\* re.sub of each pattern in turn, from pattern k on.  A pattern that does
\* not match leaves the text as it is, so the next pattern to act is the
\* first one that matches.
RECURSIVE StripPrefixes(_, _, _)
StripNext(pats, text, acting) ==
  IF acting = {} THEN text
  ELSE StripPrefixes(pats, Min(acting) + 1,
                     ReSubAnchored(pats[Min(acting)], text))

StripPrefixes(pats, k, text) ==
  StripNext(pats, text, {j \in k..Len(pats) : ReMatch(pats[j], text).ok})

\* r'\(\d{2}년~[^\)]+\)'
YearRangePattern ==
  << Lit("("), Cls(Digits, 2, 2), Lit("nyeon"), Lit("~"),
     NotCls({")"}, 1, -1), Lit(")") >>

\* r'\([A-Z]{1,3}\d{1,3}\)'
GenerationCodePattern ==
  << Lit("("), Cls(UpperLetters, 1, 3), Cls(Digits, 1, 3), Lit(")") >>

\* r'\(DM\)|\(DN8\)|\(CN7\)|\(NX4\)'
NamedCodePatterns ==
  << << Word(<<"(", "D", "M", ")">>) >>, << Word(<<"(", "D", "N", "8", ")">>) >>,
     << Word(<<"(", "C", "N", "7", ")">>) >>, << Word(<<"(", "N", "X", "4", ")">>) >> >>

\* _normalize_model_text(text)
_normalize_model_text(text) ==
  Strip(SubAltFrom(NamedCodePatterns,
                   ReSub(GenerationCodePattern,
                         ReSub(YearRangePattern,
                               StripPrefixes(ModelPrefixPatterns, 1, text))),
                   1))

\* sorted(items, key=lambda x: len(x[0]), reverse=True): a stable sort, so
\* keys of equal length keep their dict order.  SortedPos is the place item
\* i takes in the result.
SortedPos(items, i) ==
  1 + Cardinality({j \in 1..Len(items) :
                     \/ Len(items[j][1]) > Len(items[i][1])
                     \/ Len(items[j][1]) = Len(items[i][1]) /\ j < i})

SortByLenDesc(items) ==
  [p \in 1..Len(items) |->
     items[CHOOSE i \in 1..Len(items) : SortedPos(items, i) = p]]

\* What a search over one key returns from the entries of that key: the
\* first entry of the given manufacturer, else (lines 609-610, 623-624,
\* 637-638) the first entry whatever its manufacturer.
PickEntry(entries, manufacturer_label) ==
  LET own == {i \in 1..Len(entries) :
                /\ Truthy(manufacturer_label)
                /\ entries[i][1].label = The(manufacturer_label)}
  IN  IF own # {}
      THEN Some(entries[Min(own)])
      ELSE IF entries # << >> THEN Some(entries[1])
      ELSE None

\* step 1 of _find_model_in_text, for one (variation, canonical) pair
VariationHit(item, text, normalized, manufacturer_label, model_index) ==
  IF (Contains(item[1], text) \/ Contains(item[1], normalized))
     /\ DictHas(model_index, item[2])
  THEN PickEntry(DictGet(model_index, item[2], << >>), manufacturer_label)
  ELSE None

FirstVariationHit(vars, text, normalized, manufacturer_label, model_index, hits) ==
  IF hits = {} THEN None
  ELSE VariationHit(vars[Min(hits)], text, normalized, manufacturer_label,
                    model_index)

\* step 1 of _find_model_in_text: the variation table, longest key first;
\* the first pair that returns
FindByVariation(vars, text, normalized, manufacturer_label, model_index) ==
  FirstVariationHit(vars, text, normalized, manufacturer_label, model_index,
    {k \in 1..Len(vars) :
       VariationHit(vars[k], text, normalized, manufacturer_label,
                    model_index) # None})

\* step 2 of _find_model_in_text, for one (model_name, entries) pair
ModelNameHit(item, text, normalized, manufacturer_label) ==
  IF Contains(item[1], normalized) \/ Contains(item[1], text)
  THEN PickEntry(item[2], manufacturer_label)
  ELSE None

FirstModelNameHit(items, text, normalized, manufacturer_label, hits) ==
  IF hits = {} THEN None
  ELSE ModelNameHit(items[Min(hits)], text, normalized, manufacturer_label)

\* step 2 of _find_model_in_text: the catalog model names, longest first;
\* the first pair that returns
FindByModelName(items, text, normalized, manufacturer_label) ==
  FirstModelNameHit(items, text, normalized, manufacturer_label,
    {k \in 1..Len(items) :
       ModelNameHit(items[k], text, normalized, manufacturer_label) # None})

\* step 3 of _find_model_in_text, once the first word is mapped to its
\* canonical name
CanonicalHit(canonical, manufacturer_label, model_index) ==
  IF DictHas(model_index, canonical)
  THEN PickEntry(DictGet(model_index, canonical, << >>), manufacturer_label)
  ELSE None

\* step 3 of _find_model_in_text: the first word of the normalized text
FindByFirstWord(words, manufacturer_label, model_index) ==
  IF words = << >> THEN None
  ELSE CanonicalHit(DictGet(MODEL_VARIATIONS, words[1], words[1]),
                    manufacturer_label, model_index)

\* the result of the first step that returns
FirstFound(byVariation, byName, byWord) ==
  IF byVariation # None THEN byVariation
  ELSE IF byName # None THEN byName
  ELSE byWord

\* the three steps of _find_model_in_text over the normalized text
FindModel(text, normalized, manufacturer_label, model_index) ==
  FirstFound(
    FindByVariation(SortByLenDesc(MODEL_VARIATIONS), text, normalized,
                    manufacturer_label, model_index),
    FindByModelName(SortByLenDesc(model_index), text, normalized,
                    manufacturer_label),
    FindByFirstWord(SplitFirst(normalized), manufacturer_label, model_index))

\* _find_model_in_text(text, manufacturer_label), model_index being what
\* _get_model_index() returned to it (None: the dict operations raise).
\* [raised, value]: value is None or Some(<<manufacturer, model>>).
_find_model_in_text(text, manufacturer_label, model_index) ==
  IF model_index = None THEN [raised |-> TRUE, value |-> None]
  ELSE [raised |-> FALSE,
        value |-> FindModel(text, _normalize_model_text(text),
                            manufacturer_label, The(model_index))]

\* _check_keyword_in_title: r'(?<![A-Za-z0-9])N(?![A-Za-z0-9])' for "N",
\* plain containment for any other keyword
_check_keyword_in_title(title, keyword) ==
  IF keyword = << "N" >>
  THEN \E i \in 1..Len(title) :
         /\ title[i] = "N"
         /\ (i = 1 \/ title[i - 1] \notin AsciiAlnum)
         /\ (i = Len(title) \/ title[i + 1] \notin AsciiAlnum)
  ELSE Contains(keyword, title)

K_Hybrid   == <<"ha", "ii", "beu", "ri", "deu">>
K_Electric == <<"jeon", "gi">>
K_Plugin   == <<"peul", "reo", "geu", "in">>
K_PluginHybrid == K_Plugin \o K_Hybrid
K_Ilrektrik == <<"il", "reg", "teu", "rig">>

\* the points for the start years of title and trim (lines 674-678)
YearPoints(title_year, trim_start_year) ==
  IF title_year = trim_start_year THEN 10
  ELSE IF Abs(ParseInt(title_year) - ParseInt(trim_start_year)) <= 2 THEN 5
  ELSE 0

YearScoreOf(trim_name, trim_year_match, title_year) ==
  IF trim_year_match.ok /\ title_year # None
  THEN YearPoints(The(title_year), YearGroup1(trim_name, trim_year_match))
  ELSE 0

\* the year part of a trim's score (lines 671-678); title_year is group(1)
\* of the title's year match, or None
YearScore(trim_name, title_year) ==
  YearScoreOf(trim_name, ReSearch(TRIM_YEAR_PATTERN, trim_name), title_year)

\* the fuel part of a trim's score (lines 680-695)
FuelScore(trim_name, fuel_type) ==
  IF fuel_type = Some(K_Hybrid)
  THEN IF Contains(K_Hybrid, trim_name) THEN 5 ELSE -3
  ELSE IF fuel_type = Some(K_Electric)
  THEN IF \/ Contains(K_Ilrektrik, trim_name)
          \/ Contains(<<"E", "V">>, trim_name)
          \/ Contains(K_Electric, trim_name)
       THEN 5 ELSE -3
  ELSE IF fuel_type = Some(K_PluginHybrid)
  THEN IF Contains(K_Plugin, trim_name) \/ Contains(<<"P", "H", "E", "V">>, trim_name)
       THEN 5 ELSE -3
  ELSE 0

KeywordPoints(title_has_kw, trim_has_kw) ==
  IF title_has_kw /\ trim_has_kw THEN 3
  ELSE IF title_has_kw /\ ~trim_has_kw THEN -2
  ELSE 0

\* the keyword part of a trim's score (lines 697-705), keywords = ["N"]
KeywordScore(trim_name, title) ==
  KeywordPoints(_check_keyword_in_title(title, << "N" >>),
                Contains(<< "N" >>, trim_name))

\* group(1) of a search of TRIM_YEAR_PATTERN, or None
YearOf(text, year_match) ==
  IF year_match.ok THEN Some(YearGroup1(text, year_match)) ELSE None

\* the title's year (lines 661-662): group(1) of the first place where
\* TRIM_YEAR_PATTERN is found in the title
TitleYear(title) == YearOf(title, ReSearch(TRIM_YEAR_PATTERN, title))

\* the score the loop of _find_best_trim gives one trim (lines 668-705)
TrimScore(trim, title_year, title, fuel_type) ==
  YearScore(trim.trim, title_year)
    + FuelScore(trim.trim, fuel_type)
    + KeywordScore(trim.trim, title)

\* the mutant of Better: a trim that scores the same replaces the best too
BetterOrSame(trim, score, best) ==
  IF score >= best.best_score
  THEN [best_trim |-> Some(trim), best_score |-> score]
  ELSE best

\* lines 707-709: the trim replaces the best so far when it scores higher
Better(trim, score, best) ==
  IF score > best.best_score
  THEN [best_trim |-> Some(trim), best_score |-> score]
  ELSE best

\* the loop of _find_best_trim from trim k on (lines 667-709):
\* [best_trim, best_score]
RECURSIVE BestTrimLoop(_, _, _, _, _, _)
BestTrimLoop(trims, k, title_year, title, fuel_type, best) ==
  IF k > Len(trims) THEN best
  ELSE BestTrimLoop(trims, k + 1, title_year, title, fuel_type,
                    Better(trims[k],
                           TrimScore(trims[k], title_year, title, fuel_type),
                           best))

\* a return of line 712 without its fallback to the first trim
BestTrimResultNoFallback(trims, best) == best.best_trim

\* the value _find_best_trim returns after its loop (line 712)
BestTrimResult(trims, best) ==
  IF best.best_score >= 0 THEN best.best_trim
  ELSE IF trims # << >> THEN Some(trims[1]) ELSE None

\* _find_best_trim(trims, title, fuel_type): None or Some(trim)
_find_best_trim(trims, title, fuel_type) ==
  IF trims = << >> THEN None
  ELSE BestTrimResult(trims,
         BestTrimLoop(trims, 1, TitleYear(title), title, fuel_type,
                      [best_trim |-> None, best_score |-> -1]))

\* truth value of an Optional id in `if not result.manufacturer_id:`
IdTruthy(o) == o # None /\ The(o) # ""

\* the MatchResult of lines 736-738 for the manufacturer found in the index
ManufacturerResult(mfr) ==
  [MatchResult EXCEPT !.manufacturer_id = Some(mfr.id),
                      !.manufacturer_name = Some(mfr.label)]

\* match_car_model lines 734-738: the manufacturer looked up in what
\* _get_mfr_index() returned (None: `mfr_label in mfr_index` raises).
\* [raised, value]: value is the MatchResult so far.
MatchManufacturer(mfr_label, mfr_index) ==
  IF ~Truthy(mfr_label) THEN [raised |-> FALSE, value |-> MatchResult]
  ELSE IF mfr_index = None THEN [raised |-> TRUE, value |-> MatchResult]
  ELSE IF DictHas(The(mfr_index), The(mfr_label))
  THEN [raised |-> FALSE,
        value |-> ManufacturerResult(DictGet(The(mfr_index), The(mfr_label), None))]
  ELSE [raised |-> FALSE, value |-> MatchResult]

\* the fuel hint of match_car_model (lines 757-763)
FuelHint(title) ==
  IF \/ Contains(<<"(", "H", ")">>, title)
     \/ Contains(<<"(", "H", "E", "V", ")">>, title)
     \/ Contains(K_Hybrid, title)
  THEN Some(K_Hybrid)
  ELSE IF Contains(<<"(", "P", "H", "E", "V", ")">>, title) \/ Contains(K_Plugin, title)
  THEN Some(K_PluginHybrid)
  ELSE IF \/ Contains(<<"E", "V">>, title)
          \/ Contains(K_Ilrektrik, title)
          \/ Contains(K_Electric, title)
  THEN Some(K_Electric)
  ELSE None

\* lines 749-751: the model's manufacturer, when none was matched before
WithManufacturer(result, mfr_info) ==
  IF ~IdTruthy(result.manufacturer_id)
  THEN [result EXCEPT !.manufacturer_id = Some(mfr_info.id),
                      !.manufacturer_name = Some(mfr_info.label)]
  ELSE result

\* lines 753-754
WithModel(result, model_info) ==
  [result EXCEPT !.model_id = Some(model_info.id),
                 !.model_name = Some(model_info.model)]

\* lines 766-769
WithTrim(result, best_trim) ==
  IF best_trim # None
  THEN [result EXCEPT !.trim_id = Some(The(best_trim).id),
                      !.trim_name = Some(The(best_trim).trim)]
  ELSE result

\* match_car_model lines 746-771: the model and trim written into result
MatchFinish(title, result, model_match) ==
  IF model_match = None THEN result
  ELSE WithTrim(WithModel(WithManufacturer(result, The(model_match)[1]),
                          The(model_match)[2]),
                _find_best_trim(The(model_match)[2].trims, title, FuelHint(title)))

\* whether match_car_model searches the whole title again (lines 742-744)
NeedsRetry(model_match, mfr_label) == model_match = None /\ Truthy(mfr_label)

Raised == [raised |-> TRUE, value |-> MatchResult]

\* match_car_model after the second search (line 744)
MatchRetried(title, a, m2) ==
  IF m2.raised THEN Raised
  ELSE [raised |-> FALSE, value |-> MatchFinish(title, a.value, m2.value)]

\* match_car_model after the first search (lines 741-744)
MatchSearched(title, ext, a, m1, model_index2) ==
  IF a.raised \/ m1.raised THEN Raised
  ELSE IF NeedsRetry(m1.value, ext.label)
  THEN MatchRetried(title, a, _find_model_in_text(title, ext.label, model_index2))
  ELSE [raised |-> FALSE, value |-> MatchFinish(title, a.value, m1.value)]

\* match_car_model after the manufacturer is extracted (lines 731-741)
MatchExtracted(title, ext, mfr_index, model_index1, model_index2) ==
  MatchSearched(title, ext, MatchManufacturer(ext.label, mfr_index),
                _find_model_in_text(ext.remaining, ext.label, model_index1),
                model_index2)

\* match_car_model(title), given what its calls of the index getters return:
\* mfr_index from _get_mfr_index(), model_index1 and model_index2 from the
\* first and the second call of _get_model_index().
\* [raised, value]: value is the MatchResult returned.
match_car_model(title, mfr_index, model_index1, model_index2) ==
  IF ~Truthy(title) THEN [raised |-> FALSE, value |-> MatchResult]
  ELSE MatchExtracted(The(title), _extract_manufacturer_from_title(The(title)),
                      mfr_index, model_index1, model_index2)

(***************************************************************************)
(* title_parser.py                                                         *)
(***************************************************************************)
\* ParsedTitle(), every field None
ParsedTitle ==
  [manufacturer_id |-> None, model_id |-> None, trim_id |-> None,
   manufacturer |-> None, model |-> None, sub_model |-> None,
   trim |-> None, engine_cc |-> None, fuel_type |-> None]

\* _extract_manufacturer(title): [label, remaining]
_extract_manufacturer(title) == ExtractByPrefix(title, MANUFACTURER_ALIASES)

\* r'(\d{3,4})\s*cc' with re.IGNORECASE
CcPattern ==
  << Cls(Digits, 3, 4), Cls(Whitespace, 0, -1), WordCI(<<"c", "c">>) >>

\* r'(\d\.\d)\s*(?:터보|T)?': with each alternative of the optional group,
\* then without the group.  ci: under re.IGNORECASE
LitrePatterns(ci) ==
  LET head == << Cls(Digits, 1, 1), Lit("."), Cls(Digits, 1, 1),
                 Cls(Whitespace, 0, -1) >>
  IN  << head \o << Lit("teo"), Lit("bo") >>,
         head \o << IF ci THEN WordCI(<<"T">>) ELSE Lit("T") >>,
         head >>

\* r'R?(\d\.\d)' with re.IGNORECASE
RLitrePatterns ==
  << << WordCI(<<"R">>), Cls(Digits, 1, 1), Lit("."), Cls(Digits, 1, 1) >>,
     << Cls(Digits, 1, 1), Lit("."), Cls(Digits, 1, 1) >> >>

\* int(float("d.d") * 1000), exact for every one-decimal value
LitreToCc(d1, d2) == DigitVal(d1) * 1000 + DigitVal(d2) * 100

\* the value of the first of the three patterns that is found (lines
\* 211-218): m1, m2, m3 are their searches
EngineCcOf(title, m1, m2, m3) ==
  IF m1.ok THEN Some(ParseInt(Slice(title, m1.start, m1.ends[1])))
  ELSE IF m2.ok THEN Some(LitreToCc(title[m2.start], title[m2.start + 2]))
  ELSE IF m3.ok THEN Some(LitreToCc(title[MatchEnd(m3) - 2], title[MatchEnd(m3)]))
  ELSE None

\* _extract_engine_cc(title): None or Some(cc)
_extract_engine_cc(title) ==
  EngineCcOf(title, ReSearch(CcPattern, title),
             SearchAltFrom(LitrePatterns(TRUE), title, 1),
             SearchAltFrom(RLitrePatterns, title, 1))

\* the first key of the dict, in insertion order, that occurs in the text
\* (0: none does)
FirstKeyIn(d, text) ==
  LET found == {k \in 1..Len(d) : Contains(d[k][1], text)}
  IN  IF found = {} THEN 0 ELSE Min(found)

\* lines 240-244: the value of the first key of FUEL_TYPE_ALIASES in the title
FuelByKeyword(k) == IF k # 0 THEN Some(FUEL_TYPE_ALIASES[k][2]) ELSE None

FuelTypeOf(title, title_upper) ==
  IF \/ Contains(K_Ilrektrik, title)
     \/ Contains(<<"E", "L", "E", "C", "T", "R", "I", "C">>, title_upper)
     \/ Contains(<<"E", "V">>, title_upper)
  THEN IF Contains(<<"F", "C", "E", "V">>, title_upper)
       THEN Some(<<"su", "so">>)
       ELSE Some(K_Electric)
  ELSE IF \/ Contains(K_Hybrid, title)
          \/ Contains(<<"H", "E", "V">>, title_upper)
          \/ Contains(<<"H", "Y", "B", "R", "I", "D">>, title_upper)
  THEN IF Contains(<<"P", "H", "E", "V">>, title_upper)
       THEN Some(K_PluginHybrid)
       ELSE Some(K_Hybrid)
  ELSE FuelByKeyword(FirstKeyIn(FUEL_TYPE_ALIASES, title))

\* _extract_fuel_type(title): None or Some(fuel)
_extract_fuel_type(title) == FuelTypeOf(title, Upper(title))

\* the four patterns of _extract_sub_model, in order
SubModelPatterns ==
  << << Lit("("), Cls(UpperLetters, 1, 3), Cls(Digits, 1, 3), Lit(")") >>,
     << Lit("("), Cls(UpperLetters, 1, 1), Cls(Digits, 1, 1),
        Cls(UpperLetters, 1, 1), Lit(")") >>,
     << Cls(UpperLetters, 1, 1), Cls(Digits, 3, 3) >>,
     << Lit("("), Cls(UpperLetters, 2, 3), Cls(Digits, 1, 1), Lit(")") >> >>

\* group(1) of a match of pattern k: without the parentheses, if it has them
SubModelGroup(title, k, m) ==
  IF k = 3 THEN Slice(title, m.start, MatchEnd(m))
  ELSE Slice(title, m.start + 1, MatchEnd(m) - 1)

FirstSubModel(title, found) ==
  IF found = {} THEN None
  ELSE Some(SubModelGroup(title, Min(found),
                          ReSearch(SubModelPatterns[Min(found)], title)))

\* _extract_sub_model(title): group(1) of the first pattern that is found
_extract_sub_model(title) ==
  FirstSubModel(title, {k \in 1..Len(SubModelPatterns) :
                          ReSearch(SubModelPatterns[k], title).ok})

\* text with a suffix removed when it ends with it (re.sub(r'MD$', '', text))
RemoveSuffix(suffix, text) ==
  IF OccursAt(suffix, text, Len(text) - Len(suffix) + 1)
  THEN Slice(text, 1, Len(text) - Len(suffix))
  ELSE text

\* the six literal patterns of MODEL_SUFFIX_PATTERNS
ModelSuffixLiterals ==
  << <<"(", "D", "M", ")">>, <<"(", "D", "N", "8", ")">>,
     <<"(", "C", "N", "7", ")">>, <<"(", "N", "X", "4", ")">>,
     <<"(", "R", "G", "3", ")">>, <<"(", "G", ")">> >>

\* the literals from the k-th on removed in order.  A literal that does not
\* occur leaves the name as it is, so the next to act is the first that occurs.
RECURSIVE RemoveLiterals(_, _, _)
RemoveNextLiteral(lits, text, acting) ==
  IF acting = {} THEN text
  ELSE RemoveLiterals(lits, Min(acting) + 1, RemoveAll(lits[Min(acting)], text))

RemoveLiterals(lits, k, text) ==
  RemoveNextLiteral(lits, text, {j \in k..Len(lits) : Contains(lits[j], text)})

\* MODEL_SUFFIX_PATTERNS applied in order: six literals removed wherever they
\* occur, then MD and R at the end of the name
RemoveModelSuffixes(model) ==
  RemoveSuffix(<<"R">>,
               RemoveSuffix(<<"M", "D">>,
                            RemoveLiterals(ModelSuffixLiterals, 1, model)))

\* the name a compound key maps to, or else the name without its suffixes
NormalizedName(model, k) ==
  IF k # 0 THEN COMPOUND_MODEL_NAMES[k][2]
  ELSE Strip(RemoveModelSuffixes(model))

\* _normalize_model_name(model)
_normalize_model_name(model) ==
  IF model = << >> THEN model
  ELSE NormalizedName(model, FirstKeyIn(COMPOUND_MODEL_NAMES, model))

\* title.replace(keyword, '') for every key of FUEL_TYPE_ALIASES in order,
\* from key k on.  A key that does not occur leaves the text as it is, so
\* the next key to act is the first one that occurs.
RECURSIVE RemoveFuelKeywords(_, _)
RemoveNextFuelKeyword(text, acting) ==
  IF acting = {} THEN text
  ELSE RemoveFuelKeywords(Min(acting) + 1,
                          RemoveAll(FUEL_TYPE_ALIASES[Min(acting)][1], text))

RemoveFuelKeywords(k, text) ==
  RemoveNextFuelKeyword(text, {j \in k..Len(FUEL_TYPE_ALIASES) :
                                 Contains(FUEL_TYPE_ALIASES[j][1], text)})

\* lines 318-349: the title without year range, displacement, fuel keywords
\* and modifier prefixes
CleanTitle(title) ==
  Strip(StripPrefixes(ModelPrefixPatterns, 1,
    Strip(CollapseSpaces(
      RemoveFuelKeywords(1,
        SubAltFrom(LitrePatterns(FALSE),
                   ReSub(CcPattern, ReSub(YearRangePattern, title)), 1))))))

\* lines 356-361: what follows the compound name, cleaned
AfterCompound(after) ==
  Strip(CollapseSpaces(ReSub(CcPattern, ReSub(YearRangePattern, Strip(after)))))

\* lines 361-362
CompoundResult(normalized, after) ==
  [model |-> Some(normalized),
   trim |-> IF Len(after) > 2 THEN Some(after) ELSE None]

\* lines 352-362: the first compound name, in dict order, that the original
\* title contains
CompoundModel(original_title, compound, normalized) ==
  CompoundResult(normalized,
    AfterCompound(Slice(original_title,
                        Find(compound, original_title) + Len(compound),
                        Len(original_title))))

\* lines 373-377
WordsResult(model, trim) ==
  [model |-> IF Truthy(model) THEN Some(_normalize_model_name(The(model)))
             ELSE model,
   trim |-> IF Truthy(trim) /\ Len(The(trim)) < 2 THEN None ELSE trim]

\* lines 365-377: the first word as the model, the rest as the trim
FirstWordModel(parts) ==
  WordsResult(IF parts # << >> THEN Some(parts[1]) ELSE None,
              IF Len(parts) > 1 THEN Some(Strip(parts[2])) ELSE None)

ModelAndTrim(title, c) ==
  IF c # 0
  THEN CompoundModel(title, COMPOUND_MODEL_NAMES[c][1], COMPOUND_MODEL_NAMES[c][2])
  ELSE FirstWordModel(SplitFirst(CleanTitle(title)))

\* _extract_model_and_trim(title, manufacturer): [model, trim], each None or Some
_extract_model_and_trim(title, manufacturer) ==
  IF title = << >> THEN [model |-> None, trim |-> None]
  ELSE ModelAndTrim(title, FirstKeyIn(COMPOUND_MODEL_NAMES, title))

\* lines 398-408: the fields of a MatchResult copied into the result
CopyMatch(m) ==
  [ParsedTitle EXCEPT
     !.manufacturer_id = m.manufacturer_id,
     !.model_id = m.model_id,
     !.trim_id = m.trim_id,
     !.manufacturer = IF Truthy(m.manufacturer_name)
                      THEN m.manufacturer_name ELSE None,
     !.model = IF Truthy(m.model_name) THEN m.model_name ELSE None,
     !.trim = IF Truthy(m.trim_name) THEN m.trim_name ELSE None]

\* parse_title lines 396-411: the catalog match copied into the result; a
\* match that raised leaves the result empty
ParseCatalogStage(match) ==
  IF match.raised THEN ParsedTitle ELSE CopyMatch(match.value)

\* lines 414-417: the manufacturer by the alias table, unless the catalog
\* match set one
FallbackManufacturer(result, ext) ==
  IF ~Truthy(result.manufacturer)
  THEN [result EXCEPT !.manufacturer = ext.label]
  ELSE result

\* lines 420-426
RegexFields(title, result) ==
  [result EXCEPT !.engine_cc = _extract_engine_cc(title),
                 !.fuel_type = _extract_fuel_type(title),
                 !.sub_model = _extract_sub_model(title)]

\* lines 431-432: model and trim of the text, trim unless one is set
WithTextModel(result, mt) ==
  [result EXCEPT !.model = mt.model,
                 !.trim = IF ~Truthy(result.trim) THEN mt.trim ELSE result.trim]

\* lines 429-432: model and trim by the text, unless the catalog match set
\* the model
FallbackModel(result, remaining) ==
  IF ~Truthy(result.model)
  THEN WithTextModel(result, _extract_model_and_trim(remaining, result.manufacturer))
  ELSE result

\* The fallback as it would be if line 414 assigned the manufacturer without
\* its test
FallbackFieldsOverwriting(title, result, ext) ==
  FallbackModel(RegexFields(title, [result EXCEPT !.manufacturer = ext.label]),
                ext.remaining)

\* lines 414-432 over what _extract_manufacturer returned
FallbackFields(title, result, ext) ==
  FallbackModel(RegexFields(title, FallbackManufacturer(result, ext)),
                ext.remaining)

\* parse_title lines 413-434: the text-based fallback and the regex fields
ParseFallbackStage(title, result) ==
  FallbackFields(title, result, _extract_manufacturer(title))

\* parse_title without its guard of line 390: None reaches re.match, which
\* raises
ParseTitleNoGuard(title, match) ==
  IF title = None THEN [raised |-> TRUE, value |-> ParsedTitle]
  ELSE [raised |-> FALSE,
        value |-> ParseFallbackStage(The(title), ParseCatalogStage(match))]

\* parse_title(title), match being the outcome of its match_car_model(title).
\* [raised, value]: no statement after the guard raises on a str.
parse_title(title, match) ==
  IF ~Truthy(title) THEN [raised |-> FALSE, value |-> ParsedTitle]
  ELSE [raised |-> FALSE,
        value |-> ParseFallbackStage(The(title), ParseCatalogStage(match))]

(***************************************************************************)
(* The module state of model_matcher.py and its callers                    *)
(***************************************************************************)
VARIABLES
  file,          \* app/data/car_models.json on disk
  load_cache,    \* what lru_cache holds for _load_car_models: None or Some(data)
  _MFR_INDEX,    \* the global of line 514: None or Some(index)
  _MODEL_INDEX,  \* the global of line 515: None or Some(index)
  last,          \* the call that returned last, until its caller takes it
  probe,         \* one earlier parse_title call of this catalog generation
  reader,        \* a thread inside match_car_model: its position and locals
  reloader,      \* a thread inside reload_car_models: its position
  trimcall,      \* a direct call of _find_best_trim and its result
  pure,          \* a call of a function without state: its argument and result
  admin,         \* the admin routes: settings, storage and the last response
  auth,          \* users, issued tokens, the clock and the last response
  dl             \* the downloader: server, crawl cache, saved files, last result

vars == << file, load_cache, _MFR_INDEX, _MODEL_INDEX, last, probe,
           reader, reloader, trimcall, pure, admin, auth, dl >>

\* the variables of model_matcher.py and its callers, and the others
matcher == << file, load_cache, _MFR_INDEX, _MODEL_INDEX, last, probe,
              reader, reloader, trimcall >>
others == << pure, admin, auth, dl >>

\* car_models.json: absent, present but not JSON, or holding a catalog
FileMissing == [exists |-> FALSE, valid |-> FALSE, data |-> EmptyCatalog]
FileCorrupt == [exists |-> TRUE, valid |-> FALSE, data |-> EmptyCatalog]
FileOf(data) == [exists |-> TRUE, valid |-> TRUE, data |-> data]

Files == {FileMissing, FileCorrupt, FileOf(CatalogA), FileOf(CatalogB)}

\* _load_car_models() under @lru_cache(maxsize=1), on file f with cache c:
\* a hit returns the cached data; a miss runs the body, whose result is
\* cached unless it raises (json.load on a file that is not JSON).
\* [raised, data, cache]
_load_car_models(f, c) ==
  IF c # None THEN [raised |-> FALSE, data |-> The(c), cache |-> c]
  ELSE IF ~f.exists
  THEN [raised |-> FALSE, data |-> EmptyCatalog, cache |-> Some(EmptyCatalog)]
  ELSE IF ~f.valid
  THEN [raised |-> TRUE, data |-> EmptyCatalog, cache |-> None]
  ELSE [raised |-> FALSE, data |-> f.data, cache |-> Some(f.data)]

\* the cache and the two globals, as one value
Memory == [cache |-> load_cache, mfr |-> _MFR_INDEX, model |-> _MODEL_INDEX]

\* The getter as it would be with its return left out on the path that
\* builds the index: the building call returns None.
MfrStoredNoReturn(mem, cache, index) ==
  [raised |-> FALSE, value |-> None,
   mem |-> [mem EXCEPT !.cache = cache, !.mfr = index]]

\* lines 521-522: the index built is stored in _MFR_INDEX and returned
MfrStored(mem, cache, index) ==
  [raised |-> FALSE, value |-> index,
   mem |-> [mem EXCEPT !.cache = cache, !.mfr = index]]

\* line 521: _build_manufacturer_index() over the outcome l of its load
MfrBuilt(mem, l) ==
  IF l.raised THEN [raised |-> TRUE, value |-> None, mem |-> mem]
  ELSE MfrStored(mem, l.cache, Some(_build_manufacturer_index(l.data)))

\* _get_mfr_index() run without interruption: [raised, value, mem]
_get_mfr_index(f, mem) ==
  IF mem.mfr # None THEN [raised |-> FALSE, value |-> mem.mfr, mem |-> mem]
  ELSE MfrBuilt(mem, _load_car_models(f, mem.cache))

\* lines 528-529: the index built is stored in _MODEL_INDEX and returned
ModelStored(mem, cache, index) ==
  [raised |-> FALSE, value |-> index,
   mem |-> [mem EXCEPT !.cache = cache, !.model = index]]

\* line 528: _build_model_index() over the outcome l of its load
ModelBuilt(mem, l) ==
  IF l.raised THEN [raised |-> TRUE, value |-> None, mem |-> mem]
  ELSE ModelStored(mem, l.cache, Some(_build_model_index(l.data)))

\* _get_model_index() run without interruption: [raised, value, mem]
_get_model_index(f, mem) ==
  IF mem.model # None THEN [raised |-> FALSE, value |-> mem.model, mem |-> mem]
  ELSE ModelBuilt(mem, _load_car_models(f, mem.cache))

\* match_car_model run without interruption, from its getter calls on:
\* g1 is the outcome of _get_mfr_index(), g2 and g3 of the first and the
\* second _get_model_index()
MatchWithRetry(title, g1, g2, g3) ==
  [outcome |-> match_car_model(title, g1.value, g2.value, g3.value),
   mem |-> g3.mem]

MatchWithModel(title, f, g1, g2) ==
  IF g2.raised THEN [outcome |-> Raised, mem |-> g2.mem]
  ELSE MatchWithRetry(title, g1, g2, _get_model_index(f, g2.mem))

MatchWithMfr(title, f, g1) ==
  IF g1.raised THEN [outcome |-> Raised, mem |-> g1.mem]
  ELSE MatchWithModel(title, f, g1, _get_model_index(f, g1.mem))

\* match_car_model(title) run without interruption on file f and memory
\* mem: [outcome, mem], outcome being [raised, value]
MatchCall(title, f, mem) ==
  IF ~Truthy(title)
  THEN [outcome |-> [raised |-> FALSE, value |-> MatchResult], mem |-> mem]
  ELSE MatchWithMfr(title, f, _get_mfr_index(f, mem))

\* parse_title over the outcome c of its match_car_model call
ParseMatched(title, c) ==
  [outcome |-> parse_title(title, c.outcome), match |-> c.outcome, mem |-> c.mem]

\* parse_title(title) run without interruption: [outcome, match, mem],
\* match being the outcome of the match_car_model call inside it
ParseCall(title, f, mem) == ParseMatched(title, MatchCall(title, f, mem))

(***************************************************************************)
(* Calls one after another                                                 *)
(***************************************************************************)
\* the titles match_car_model is called with (csv_service.py line 132)
MatchTitles ==
  {Some(T_HyundaiK5), Some(T_KiaK5), Some(T_RenaultXM3), Some(T_XM3),
   Some(T_HyundaiPony), Some(T_SonataHev)}

\* the titles parse_title is called with (auction_records_repo.py lines 83, 91)
ParseTitles ==
  {None, Some(<< >>), Some(T_KiaK5), Some(T_HyundaiPony), Some(T_Pony),
   Some(T_XM3), Some(T_BracketKiaHev), Some(T_KiaRay)}

\* the titles whose parse_title call may be remembered in probe
ProbeTitles == {Some(T_KiaK5), Some(T_HyundaiPony)}

NoCall ==
  [op |-> "none", title |-> None, file |-> FileMissing, fresh |-> FALSE,
   match |-> [raised |-> FALSE, value |-> MatchResult],
   raised |-> FALSE, parsed |-> ParsedTitle, catalog |-> None]

NoProbe ==
  [set |-> FALSE, title |-> None, fresh |-> FALSE, between |-> FALSE,
   parsed |-> ParsedTitle, catalog |-> None]

IdleReader ==
  [pc |-> "idle", title |-> << >>, pass |-> 1, data |-> None, built |-> None,
   mfr_index |-> None, model_index1 |-> None, model_index2 |-> None]

NoTrimCall ==
  [called |-> FALSE, trims |-> << >>, title |-> << >>, fuel_type |-> None,
   result |-> None]

\* nothing called yet outside model_matcher.py and title_parser.py
NoPure == [fn |-> "none"]
NoAdmin == [route |-> "none"]
NoAuth == [route |-> "none"]
NoDownload == [called |-> FALSE]

OthersIdle ==
  /\ pure = NoPure
  /\ admin = NoAdmin
  /\ auth = NoAuth
  /\ dl = NoDownload

\* the module state of model_matcher.py with nothing loaded and no call made
MatcherIdle ==
  /\ file = FileMissing
  /\ load_cache = None
  /\ _MFR_INDEX = None
  /\ _MODEL_INDEX = None
  /\ last = NoCall
  /\ probe = NoProbe
  /\ reader = IdleReader
  /\ reloader = "idle"
  /\ trimcall = NoTrimCall

\* the interpreter after the import of model_matcher: nothing loaded
Init ==
  /\ file \in Files
  /\ load_cache = None
  /\ _MFR_INDEX = None
  /\ _MODEL_INDEX = None
  /\ last = NoCall
  /\ probe = NoProbe
  /\ reader = IdleReader
  /\ reloader = "idle"
  /\ trimcall = NoTrimCall
  /\ OthersIdle

\* car_models.json is replaced, removed or damaged on disk
UpdateFile ==
  /\ \E f \in Files : f # file /\ file' = f
  /\ UNCHANGED << load_cache, _MFR_INDEX, _MODEL_INDEX, last, probe,
                  reader, reloader, trimcall >>
  /\ UNCHANGED others

\* reload_car_models() run without interruption (lines 774-779); the
\* catalog generation ends, and with it what probe remembers
Reload ==
  /\ load_cache' = None
  /\ _MFR_INDEX' = None
  /\ _MODEL_INDEX' = None
  /\ probe' = NoProbe
  /\ \/ load_cache # None
     \/ probe # NoProbe
  /\ UNCHANGED << file, last, reader, reloader, trimcall >>
  /\ UNCHANGED others

\* what a call leaves in the cache and the globals
Stores(mem) ==
  /\ load_cache' = mem.cache
  /\ _MFR_INDEX' = mem.mfr
  /\ _MODEL_INDEX' = mem.model

\* match_car_model(title) returns c
MatchReturns(title, c) ==
  /\ Stores(c.mem)
  /\ last' = [op |-> "match_car_model", title |-> title, file |-> file,
              fresh |-> load_cache = None, match |-> c.outcome,
              raised |-> c.outcome.raised, parsed |-> ParsedTitle,
              catalog |-> c.mem.cache]
  /\ probe' = IF probe.set THEN [probe EXCEPT !.between = TRUE] ELSE probe

\* a caller runs match_car_model(title) and holds what it returned
CallMatchCarModel ==
  /\ last = NoCall
  /\ \E title \in MatchTitles :
       MatchReturns(title, MatchCall(title, file, Memory))
  /\ UNCHANGED << file, reader, reloader, trimcall >>
  /\ UNCHANGED others

\* parse_title(title) returns c; the call may become the remembered one
ParseReturns(title, c) ==
  /\ Stores(c.mem)
  /\ last' = [op |-> "parse_title", title |-> title, file |-> file,
              fresh |-> load_cache = None, match |-> c.match,
              raised |-> c.outcome.raised, parsed |-> c.outcome.value,
              catalog |-> c.mem.cache]
  /\ \/ probe' = IF probe.set /\ probe.title # title
                 THEN [probe EXCEPT !.between = TRUE] ELSE probe
     \/ /\ ~probe.set
        /\ title \in ProbeTitles
        /\ probe' = [set |-> TRUE, title |-> title,
                     fresh |-> _MFR_INDEX = None /\ _MODEL_INDEX = None,
                     between |-> FALSE, parsed |-> c.outcome.value,
                     catalog |-> c.mem.cache]

\* a caller runs parse_title(title) and holds what it returned
CallParseTitle ==
  /\ last = NoCall
  /\ \E title \in ParseTitles :
       ParseReturns(title, ParseCall(title, file, Memory))
  /\ UNCHANGED << file, reader, reloader, trimcall >>
  /\ UNCHANGED others

\* the caller takes the record and is ready for the next call
Return ==
  /\ last # NoCall
  /\ last' = NoCall
  /\ UNCHANGED << file, load_cache, _MFR_INDEX, _MODEL_INDEX, probe,
                  reader, reloader, trimcall >>
  /\ UNCHANGED others

Next ==
  \/ UpdateFile
  \/ Reload
  \/ CallMatchCarModel
  \/ CallParseTitle
  \/ Return

Spec == Init /\ [][Next]_vars

(***************************************************************************)
(* A call of match_car_model beside a call of reload_car_models: the       *)
(* reader takes one step per access to the cache or to a global, and the   *)
(* reloader one step per statement of lines 777-779.                       *)
(***************************************************************************)
\* the titles the reader calls match_car_model with
RaceTitles == {T_KiaK5, T_HyundaiPony}

\* the generations of car_models.json a deployment puts on disk
Generations == {CatalogA, CatalogB}

InitRace ==
  /\ file = FileOf(CatalogA)
  /\ load_cache = None
  /\ _MFR_INDEX = None
  /\ _MODEL_INDEX = None
  /\ last = NoCall
  /\ probe = NoProbe
  /\ reader = IdleReader
  /\ reloader = "idle"
  /\ trimcall = NoTrimCall
  /\ OthersIdle

\* car_models.json is replaced by another generation
ReplaceFile ==
  /\ \E data \in Generations : file # FileOf(data) /\ file' = FileOf(data)
  /\ UNCHANGED << load_cache, _MFR_INDEX, _MODEL_INDEX, last, probe,
                  reader, reloader, trimcall >>
  /\ UNCHANGED others

\* line 777: _load_car_models.cache_clear()
ReloadClearCache ==
  /\ reloader = "idle"
  /\ load_cache' = None
  /\ reloader' = "cleared_cache"
  /\ UNCHANGED << file, _MFR_INDEX, _MODEL_INDEX, last, probe, reader, trimcall >>
  /\ UNCHANGED others

\* line 778: _MFR_INDEX = None
ReloadClearMfr ==
  /\ reloader = "cleared_cache"
  /\ _MFR_INDEX' = None
  /\ reloader' = "cleared_mfr"
  /\ UNCHANGED << file, load_cache, _MODEL_INDEX, last, probe, reader, trimcall >>
  /\ UNCHANGED others

\* line 779: _MODEL_INDEX = None, and reload_car_models returns
ReloadClearModel ==
  /\ reloader = "cleared_mfr"
  /\ _MODEL_INDEX' = None
  /\ reloader' = "idle"
  /\ UNCHANGED << file, load_cache, _MFR_INDEX, last, probe, reader, trimcall >>
  /\ UNCHANGED others

\* match_car_model(title) is entered (lines 725-731); the caller holds no
\* record while the call runs
ReaderCall ==
  /\ reader.pc = "idle"
  /\ \E title \in RaceTitles :
       reader' = [IdleReader EXCEPT !.pc = "mfr_test", !.title = title]
  /\ last' = NoCall
  /\ UNCHANGED << file, load_cache, _MFR_INDEX, _MODEL_INDEX, probe,
                  reloader, trimcall >>
  /\ UNCHANGED others

\* line 520: if _MFR_INDEX is None
ReaderMfrTest ==
  /\ reader.pc = "mfr_test"
  /\ reader' = [reader EXCEPT
                  !.pc = IF _MFR_INDEX = None THEN "mfr_load" ELSE "mfr_return"]
  /\ UNCHANGED << file, load_cache, _MFR_INDEX, _MODEL_INDEX, last, probe,
                  reloader, trimcall >>
  /\ UNCHANGED others

\* line 521, _build_manufacturer_index() calling _load_car_models(): on a
\* cache hit the index is built from the cached data; on a miss the body
\* reads the file, and the cache is filled in the next step
ReaderMfrLoad ==
  /\ reader.pc = "mfr_load"
  /\ reader' = IF load_cache # None
               THEN [reader EXCEPT
                       !.pc = "mfr_store",
                       !.built = Some(_build_manufacturer_index(The(load_cache)))]
               ELSE [reader EXCEPT !.pc = "mfr_cache", !.data = Some(file.data)]
  /\ UNCHANGED << file, load_cache, _MFR_INDEX, _MODEL_INDEX, last, probe,
                  reloader, trimcall >>
  /\ UNCHANGED others

\* line 521, _load_car_models() returning after a miss: lru_cache keeps what
\* the body read, and the index is built from it
ReaderMfrCache ==
  /\ reader.pc = "mfr_cache"
  /\ load_cache' = reader.data
  /\ reader' = [reader EXCEPT
                  !.pc = "mfr_store", !.data = None,
                  !.built = Some(_build_manufacturer_index(The(reader.data)))]
  /\ UNCHANGED << file, _MFR_INDEX, _MODEL_INDEX, last, probe, reloader, trimcall >>
  /\ UNCHANGED others

\* line 521: _MFR_INDEX = the index built
ReaderMfrStore ==
  /\ reader.pc = "mfr_store"
  /\ _MFR_INDEX' = reader.built
  /\ reader' = [reader EXCEPT !.pc = "mfr_return", !.built = None]
  /\ UNCHANGED << file, load_cache, _MODEL_INDEX, last, probe, reloader, trimcall >>
  /\ UNCHANGED others

\* line 522: return _MFR_INDEX, the global read again; then lines 735-738,
\* which raise on None
ReaderMfrReturn ==
  /\ reader.pc = "mfr_return"
  /\ reader' = [reader EXCEPT
                  !.pc = IF MatchManufacturer(
                              _extract_manufacturer_from_title(reader.title).label,
                              _MFR_INDEX).raised
                         THEN "finish" ELSE "model_test",
                  !.mfr_index = _MFR_INDEX]
  /\ UNCHANGED << file, load_cache, _MFR_INDEX, _MODEL_INDEX, last, probe,
                  reloader, trimcall >>
  /\ UNCHANGED others

\* line 527: if _MODEL_INDEX is None
ReaderModelTest ==
  /\ reader.pc = "model_test"
  /\ reader' = [reader EXCEPT
                  !.pc = IF _MODEL_INDEX = None THEN "model_load" ELSE "model_return"]
  /\ UNCHANGED << file, load_cache, _MFR_INDEX, _MODEL_INDEX, last, probe,
                  reloader, trimcall >>
  /\ UNCHANGED others

\* line 528, _build_model_index() calling _load_car_models()
ReaderModelLoad ==
  /\ reader.pc = "model_load"
  /\ reader' = IF load_cache # None
               THEN [reader EXCEPT
                       !.pc = "model_store",
                       !.built = Some(_build_model_index(The(load_cache)))]
               ELSE [reader EXCEPT !.pc = "model_cache", !.data = Some(file.data)]
  /\ UNCHANGED << file, load_cache, _MFR_INDEX, _MODEL_INDEX, last, probe,
                  reloader, trimcall >>
  /\ UNCHANGED others

\* line 528, _load_car_models() returning after a miss
ReaderModelCache ==
  /\ reader.pc = "model_cache"
  /\ load_cache' = reader.data
  /\ reader' = [reader EXCEPT
                  !.pc = "model_store", !.data = None,
                  !.built = Some(_build_model_index(The(reader.data)))]
  /\ UNCHANGED << file, _MFR_INDEX, _MODEL_INDEX, last, probe, reloader, trimcall >>
  /\ UNCHANGED others

\* line 528: _MODEL_INDEX = the index built
ReaderModelStore ==
  /\ reader.pc = "model_store"
  /\ _MODEL_INDEX' = reader.built
  /\ reader' = [reader EXCEPT !.pc = "model_return", !.built = None]
  /\ UNCHANGED << file, load_cache, _MFR_INDEX, last, probe, reloader, trimcall >>
  /\ UNCHANGED others

\* where the reader goes after its first search m1 (lines 741-744): to the
\* getter again for the search of the whole title, or to the end
AfterFirstSearch(ext, m1) ==
  IF ~m1.raised /\ NeedsRetry(m1.value, ext.label) THEN "model_test" ELSE "finish"

\* line 529: return _MODEL_INDEX, the global read again.  In the first
\* search (line 741) the search follows; the second search (line 744) is
\* the last access to the globals.
ReaderModelReturn ==
  /\ reader.pc = "model_return"
  /\ reader' = IF reader.pass = 1
               THEN [reader EXCEPT
                       !.pc = AfterFirstSearch(
                                _extract_manufacturer_from_title(reader.title),
                                _find_model_in_text(
                                  _extract_manufacturer_from_title(reader.title).remaining,
                                  _extract_manufacturer_from_title(reader.title).label,
                                  _MODEL_INDEX)),
                       !.pass = 2,
                       !.model_index1 = _MODEL_INDEX]
               ELSE [reader EXCEPT !.pc = "finish", !.model_index2 = _MODEL_INDEX]
  /\ UNCHANGED << file, load_cache, _MFR_INDEX, _MODEL_INDEX, last, probe,
                  reloader, trimcall >>
  /\ UNCHANGED others

\* match_car_model returns (or raises) with what its getter calls gave it
ReaderFinish ==
  /\ reader.pc = "finish"
  /\ last' = [op |-> "match_car_model", title |-> Some(reader.title),
              file |-> file, fresh |-> FALSE,
              match |-> match_car_model(Some(reader.title), reader.mfr_index,
                                        reader.model_index1, reader.model_index2),
              raised |-> match_car_model(Some(reader.title), reader.mfr_index,
                                         reader.model_index1,
                                         reader.model_index2).raised,
              parsed |-> ParsedTitle, catalog |-> load_cache]
  /\ reader' = IdleReader
  /\ UNCHANGED << file, load_cache, _MFR_INDEX, _MODEL_INDEX, probe,
                  reloader, trimcall >>
  /\ UNCHANGED others

NextRace ==
  \/ ReplaceFile
  \/ ReloadClearCache
  \/ ReloadClearMfr
  \/ ReloadClearModel
  \/ ReaderCall
  \/ ReaderMfrTest
  \/ ReaderMfrLoad
  \/ ReaderMfrCache
  \/ ReaderMfrStore
  \/ ReaderMfrReturn
  \/ ReaderModelTest
  \/ ReaderModelLoad
  \/ ReaderModelCache
  \/ ReaderModelStore
  \/ ReaderModelReturn
  \/ ReaderFinish

SpecRace == InitRace /\ [][NextRace]_vars

(***************************************************************************)
(* _find_best_trim called on its own                                       *)
(***************************************************************************)
\* the trims of A4 and of Sonata in the catalog
A4Trims == CatalogA.import[2].models[1].trims
SonataTrims == CatalogA.domestic[1].models[1].trims

TrimPool == {A4Trims[1], A4Trims[2], SonataTrims[1], SonataTrims[2]}

\* the longest trim list tried
MaxTrims == 2

TrimLists == UNION {[1..n -> TrimPool] : n \in 0..MaxTrims}

TrimTitles == {TT_TwoRanges, TT_CodeVsYear, TT_SonataN, T_SonataHev}

\* the fuel hints match_car_model passes (lines 757-763)
FuelTypes == {None, Some(K_Hybrid), Some(K_Electric), Some(K_PluginHybrid)}

InitTrim ==
  /\ file = FileMissing
  /\ load_cache = None
  /\ _MFR_INDEX = None
  /\ _MODEL_INDEX = None
  /\ last = NoCall
  /\ probe = NoProbe
  /\ reader = IdleReader
  /\ reloader = "idle"
  /\ trimcall \in [called : {FALSE}, trims : TrimLists, title : TrimTitles,
                   fuel_type : FuelTypes, result : {None}]
  /\ OthersIdle

\* _find_best_trim(trims, title, fuel_type) returns
CallFindBestTrim ==
  /\ ~trimcall.called
  /\ trimcall' = [trimcall EXCEPT
                    !.called = TRUE,
                    !.result = _find_best_trim(trimcall.trims, trimcall.title,
                                               trimcall.fuel_type)]
  /\ UNCHANGED << file, load_cache, _MFR_INDEX, _MODEL_INDEX, last, probe,
                  reader, reloader >>
  /\ UNCHANGED others

NextTrim == CallFindBestTrim

SpecTrim == InitTrim /\ [][NextTrim]_vars

(***************************************************************************)
(* title_parser.py: the normalizers of raw CSV fields                      *)
(***************************************************************************)
\* USAGE_TYPE_ALIASES of title_parser.py, every entry, in insertion order
USAGE_TYPE_ALIASES ==
  <<
    << <<"ja", "ga", "yong">>, <<"ja", "ga", "yong">> >>,
    << <<"ren", "teo", "ka">>, <<"ren", "teo", "ka">> >>,
    << <<"ren", "teu">>, <<"ren", "teo", "ka">> >>,
    << <<"yeong", "eob", "yong">>, <<"yeong", "eob", "yong">> >>,
    << <<"gwan", "yong">>, <<"gwan", "yong">> >>
  >>

\* lines 445-452 over the stripped value
NormalizedFuel(raw_fuel) ==
  IF DictHas(FUEL_TYPE_ALIASES, raw_fuel)
  THEN Some(DictGet(FUEL_TYPE_ALIASES, raw_fuel, raw_fuel))
  ELSE IF DictHas(USAGE_TYPE_ALIASES, raw_fuel) THEN None
  ELSE Some(raw_fuel)

\* normalize_fuel(raw_fuel): None or Some(str)
normalize_fuel(raw_fuel) ==
  IF ~Truthy(raw_fuel) THEN None ELSE NormalizedFuel(Strip(The(raw_fuel)))

\* r'\s*/\s*'
SlashPattern ==
  << Cls(Whitespace, 0, -1), Lit("/"), Cls(Whitespace, 0, -1) >>

\* text with the first match m of a pattern removed, as re.sub with count=1
FirstRemoved(text, m) ==
  IF m.ok
  THEN Slice(text, 1, m.start - 1) \o Slice(text, MatchEnd(m) + 1, Len(text))
  ELSE text

\* line 484 as it would be if only the first separator were removed
StripFirstSeparator(score) == FirstRemoved(score, ReSearch(SlashPattern, score))

\* line 484: re.sub(r'\s*/\s*', '', score)
StripSeparators(score) == ReSub(SlashPattern, score)

\* line 486: score if score else None
ScoreOrNone(score) == IF score # << >> THEN Some(score) ELSE None

\* normalize_score(raw_score): None or Some(str)
normalize_score(raw_score) ==
  IF ~Truthy(raw_score) THEN None
  ELSE ScoreOrNone(StripSeparators(Strip(The(raw_score))))

\* the keys of a dict
Keys(d) == {d[i][1] : i \in 1..Len(d)}

\* raw fuel fields: absent, empty, blank, every alias as it is and between
\* spaces, every usage marker, and two values of no table
FuelInputs ==
  {None, Some(<< >>), Some(<< " " >>), Some(<<"su", "dong">>), Some(<<"L", "N", "G">>)}
    \cup {Some(k) : k \in Keys(FUEL_TYPE_ALIASES) \cup Keys(USAGE_TYPE_ALIASES)}
    \cup {Some(<< " " >> \o k \o << " " >>) : k \in Keys(FUEL_TYPE_ALIASES)}

\* the longest raw score tried
MaxScoreLen == 4

ScoreChars == {"A", "B", " ", "/"}

\* raw score fields: absent, and every string of up to MaxScoreLen characters
ScoreInputs ==
  {None} \cup {Some(s) : s \in UNION {[1..n -> ScoreChars] : n \in 0..MaxScoreLen}}

PureCall(fn, arg) == [fn |-> fn, arg |-> arg, out |-> None, again |-> None, step |-> 0]

InitNormalize ==
  /\ MatcherIdle
  /\ admin = NoAdmin
  /\ auth = NoAuth
  /\ dl = NoDownload
  /\ pure \in {PureCall("normalize_fuel", a) : a \in FuelInputs}
                \cup {PureCall("normalize_score", a) : a \in ScoreInputs}
                \cup {PureCall("_extract_fuel_type", k) :
                        k \in Keys(FUEL_TYPE_ALIASES)}

\* normalize_fuel(raw_fuel) returns (auction_records_repo.py line 88)
CallNormalizeFuel ==
  /\ pure.fn = "normalize_fuel"
  /\ pure.step = 0
  /\ pure' = [pure EXCEPT !.out = normalize_fuel(pure.arg), !.step = 1]
  /\ UNCHANGED << matcher, admin, auth, dl >>

\* normalize_score(raw_score) returns (auction_records_repo.py line 129)
CallNormalizeScore ==
  /\ pure.fn = "normalize_score"
  /\ pure.step = 0
  /\ pure' = [pure EXCEPT !.out = normalize_score(pure.arg), !.step = 1]
  /\ UNCHANGED << matcher, admin, auth, dl >>

\* normalize_score is run on what it returned
CallNormalizeScoreAgain ==
  /\ pure.fn = "normalize_score"
  /\ pure.step = 1
  /\ pure' = [pure EXCEPT !.again = normalize_score(pure.out), !.step = 2]
  /\ UNCHANGED << matcher, admin, auth, dl >>

\* _extract_fuel_type(title) returns (parse_title, line 423)
CallExtractFuelType ==
  /\ pure.fn = "_extract_fuel_type"
  /\ pure.step = 0
  /\ pure' = [pure EXCEPT !.out = _extract_fuel_type(pure.arg), !.step = 1]
  /\ UNCHANGED << matcher, admin, auth, dl >>

\* normalize_fuel is run on the title that _extract_fuel_type was given
CallNormalizeFuelOfTitle ==
  /\ pure.fn = "_extract_fuel_type"
  /\ pure.step = 1
  /\ pure' = [pure EXCEPT !.again = normalize_fuel(Some(pure.arg)), !.step = 2]
  /\ UNCHANGED << matcher, admin, auth, dl >>

NextNormalize ==
  \/ CallNormalizeFuel
  \/ CallNormalizeScore
  \/ CallNormalizeScoreAgain
  \/ CallExtractFuelType
  \/ CallNormalizeFuelOfTitle

SpecNormalize == InitNormalize /\ [][NextNormalize]_vars

(***************************************************************************)
(* model_matcher.py: the manufacturer extractor on its own                 *)
(***************************************************************************)
\* how a title may begin: nothing, a blank, a bracketed token that is an
\* alias, one that is not, a known first word, first words with a
\* parenthesis, an unknown first word, an empty bracket, an open parenthesis
TitlePrefixes ==
  {<< >>,
   <<" ">>,
   <<"[", "gi", "aa", "]", " ">>,
   <<"[", "f", "o", "o", "]">>,
   <<"[", "hyeon", "dae", "]", " ", " ">>,
   <<"hyeon", "dae", " ">>,
   <<"swe", "bo", "re", "(", "han", "gug", "G", "M", ")", " ">>,
   <<"reu", "no", "(", "sam", "seong", ")", " ">>,
   <<"gi", "aa", "(", "f", "o", "o", ")", " ">>,
   <<"f", "o", "o", " ">>,
   <<"[", "]", " ">>,
   <<"reu", "no", "(", "sam", " ">>}

\* how it may go on: nothing, a model, a brand with one of its models in
\* either script and case, a brand with something else, a brand alone, a
\* brand and a model written together
TitleBodies ==
  {<< >>,
   <<"K", "5">>,
   <<"je", "ne", "si", "seu", " ", "G", "8", "0">>,
   <<"g", "e", "n", "e", "s", "i", "s", " ", " ", "g", "v", "7", "0", " ">>,
   <<"T", "E", "S", "L", "A", " ", "M", "O", "D", "E", "L", " ", "3">>,
   <<"t", "e", "s", "l", "a", " ", "mo", "del", " ", "Y">>,
   <<"je", "ne", "si", "seu", " ", "K", "5">>,
   <<"T", "E", "S", "L", "A">>,
   <<"G", "E", "N", "E", "S", "I", "S", "G", "8", "0">>}

ExtractorTitles == {p \o b : p \in TitlePrefixes, b \in TitleBodies}

InitExtract ==
  /\ MatcherIdle
  /\ admin = NoAdmin
  /\ auth = NoAuth
  /\ dl = NoDownload
  /\ pure \in {PureCall("_extract_manufacturer_from_title", t) : t \in ExtractorTitles}

\* _extract_manufacturer_from_title(title) returns (match_car_model line 731)
CallExtractManufacturer ==
  /\ pure.fn = "_extract_manufacturer_from_title"
  /\ pure.step = 0
  /\ pure' = [pure EXCEPT !.out = _extract_manufacturer_from_title(pure.arg),
                          !.step = 1]
  /\ UNCHANGED << matcher, admin, auth, dl >>

NextExtract == CallExtractManufacturer

SpecExtract == InitExtract /\ [][NextExtract]_vars

(***************************************************************************)
(* bizdate.py: dates as YYMMDD strings                                     *)
(***************************************************************************)
DigitChars == <<"0", "1", "2", "3", "4", "5", "6", "7", "8", "9">>

\* int() of one decimal digit
DigitValue(c) == (CHOOSE i \in 1..10 : DigitChars[i] = c) - 1

\* int(value[i:i+2])
TwoDigitValue(value, i) == DigitValue(value[i]) * 10 + DigitValue(value[i + 1])

\* "%02d" of a number below 100
TwoDigits(n) == << DigitChars[(n \div 10) + 1], DigitChars[(n % 10) + 1] >>

\* str.isdigit()
IsDigit(value) == value # << >> /\ \A i \in 1..Len(value) : value[i] \in Digits

\* datetime: the proleptic Gregorian calendar
IsLeap(year) == year % 4 = 0 /\ (year % 100 # 0 \/ year % 400 = 0)

DaysInMonth(year, month) ==
  IF month = 2 THEN (IF IsLeap(year) THEN 29 ELSE 28)
  ELSE IF month \in {4, 6, 9, 11} THEN 30 ELSE 31

DaysBeforeYear(year) ==
  (year - 1) * 365 + ((year - 1) \div 4) - ((year - 1) \div 100) + ((year - 1) \div 400)

DaysBeforeMonthTable == <<0, 31, 59, 90, 120, 151, 181, 212, 243, 273, 304, 334>>

DaysBeforeMonth(year, month) ==
  DaysBeforeMonthTable[month] + (IF month > 2 /\ IsLeap(year) THEN 1 ELSE 0)

Date(year, month, day) == [year |-> year, month |-> month, day |-> day]

\* date.toordinal(): 0001-01-01 is day 1
ToOrdinal(d) == DaysBeforeYear(d.year) + DaysBeforeMonth(d.year, d.month) + d.day

\* the month and day of day n (from 0) of a year
MonthAndDay(year, n, month) ==
  IF DaysBeforeMonth(year, month) > n
  THEN Date(year, month - 1, n - DaysBeforeMonth(year, month - 1) + 1)
  ELSE Date(year, month, n - DaysBeforeMonth(year, month) + 1)

\* the date of day n (from 0) of a cycle of 400 years, given the number of
\* whole centuries, of whole 4-year cycles and of whole years before it
DateInCycle(first, n100, n4, n1, n) ==
  IF n1 = 4 \/ n100 = 4
  THEN Date(first + n100 * 100 + n4 * 4 + n1 - 1, 12, 31)
  ELSE MonthAndDay(first + n100 * 100 + n4 * 4 + n1, n, (n + 50) \div 32)

DateInCentury(first, n100, n) ==
  DateInCycle(first, n100, n \div 1461, (n % 1461) \div 365, (n % 1461) % 365)

DateIn400(first, n) == DateInCentury(first, n \div 36524, n % 36524)

\* date.fromordinal(n)
FromOrdinal(n) == DateIn400(((n - 1) \div 146097) * 400 + 1, (n - 1) % 146097)

\* date.weekday(): Monday is 0, Sunday is 6
Weekday(d) == (ToOrdinal(d) + 6) % 7

\* d + timedelta(days=k)
PlusDays(d, k) == FromOrdinal(ToOrdinal(d) + k)

\* date(year, month, day), which raises ValueError for a day that is not in
\* the calendar: [raised, value]
NewDate(year, month, day) ==
  IF month \in 1..12 /\ day >= 1 /\ day <= DaysInMonth(year, IF month \in 1..12 THEN month ELSE 1)
  THEN [raised |-> FALSE, value |-> Date(year, month, day)]
  ELSE [raised |-> TRUE, value |-> Date(0, 0, 0)]

\* _parse_yymmdd(value): [raised, value]
_parse_yymmdd(value) ==
  IF Len(value) # 6 \/ ~IsDigit(value)
  THEN [raised |-> TRUE, value |-> Date(0, 0, 0)]
  ELSE NewDate(2000 + TwoDigitValue(value, 1), TwoDigitValue(value, 3),
               TwoDigitValue(value, 5))

\* _format_yymmdd(d): d.strftime("%y%m%d")
_format_yymmdd(d) == TwoDigits(d.year % 100) \o TwoDigits(d.month) \o TwoDigits(d.day)

\* the days to add as if every weekday went on to the day after it
DaysToNextAlwaysOne(wd) == 1

\* next_business_day lines 23-30: the days to add for weekday wd
DaysToNext(wd) ==
  IF wd <= 3 THEN 1
  ELSE IF wd = 4 THEN 3
  ELSE IF wd = 5 THEN 2
  ELSE 1

NextBusinessDayOf(d) ==
  IF d.raised THEN [raised |-> TRUE, value |-> << >>]
  ELSE [raised |-> FALSE,
        value |-> _format_yymmdd(PlusDays(d.value, DaysToNext(Weekday(d.value))))]

\* next_business_day(yymmdd): [raised, value]
next_business_day(yymmdd) == NextBusinessDayOf(_parse_yymmdd(yymmdd))

\* the candidates as if every mapped day had one
CandidateOffsetsOneDay(wd) == << 1 >>

\* previous_source_candidates_for_mapped lines 43-50: how many days back
\* each candidate lies, for weekday wd of the mapped date
CandidateOffsets(wd) == IF 1 <= wd /\ wd <= 4 THEN << 1 >> ELSE << 1, 2, 3 >>

CandidatesBack(d, offsets) ==
  [i \in 1..Len(offsets) |-> _format_yymmdd(PlusDays(d, 0 - offsets[i]))]

PreviousCandidatesOf(d) ==
  IF d.raised THEN [raised |-> TRUE, value |-> << >>]
  ELSE [raised |-> FALSE,
        value |-> CandidatesBack(d.value, CandidateOffsets(Weekday(d.value)))]

\* previous_source_candidates_for_mapped(yymmdd_mapped): [raised, value]
previous_source_candidates_for_mapped(yymmdd_mapped) ==
  PreviousCandidatesOf(_parse_yymmdd(yymmdd_mapped))

\* yymmdd_to_iso(yymmdd)
yymmdd_to_iso(yymmdd) ==
  IF Len(yymmdd) = 6 /\ IsDigit(yymmdd)
  THEN <<"2", "0">> \o Slice(yymmdd, 1, 2) \o <<"-">> \o Slice(yymmdd, 3, 4)
         \o <<"-">> \o Slice(yymmdd, 5, 6)
  ELSE yymmdd

\* the digits taken as if the year began at the first character
IsoDigitsFromCentury(iso_date) ==
  Slice(iso_date, 1, 2) \o Slice(iso_date, 6, 7) \o Slice(iso_date, 9, 10)

\* iso_date[2:4] + iso_date[5:7] + iso_date[8:10]
IsoDigits(iso_date) ==
  Slice(iso_date, 3, 4) \o Slice(iso_date, 6, 7) \o Slice(iso_date, 9, 10)

\* iso_to_yymmdd(iso_date)
iso_to_yymmdd(iso_date) ==
  IF Len(iso_date) = 10 /\ iso_date[5] = "-" /\ iso_date[8] = "-"
  THEN IsoDigits(iso_date)
  ELSE iso_date

\* the two-digit years tried: the first two of the century, one before a
\* leap year, a leap year, the year of the tests and the last of the century
DateYears == {0, 1, 23, 24, 25, 99}

\* YYMMDD strings: every month with every day number from 01 to 31, so that
\* days no month has are among them, and two strings that are no YYMMDD
DateInputs ==
  {TwoDigits(y) \o TwoDigits(mo) \o TwoDigits(d) :
     y \in DateYears, mo \in 1..12, d \in 1..31}
    \cup {<<"2", "5", "1", "1", "3">>, <<"2", "5", "a", "b", "3", "0">>}

\* six-character strings for yymmdd_to_iso: every string of the digits 0, 1
\* and 9, and the strings of the tests
YymmddInputs ==
  [1..6 -> {"0", "1", "9"}]
    \cup {<<"2", "5", "1", "2", "2", "5">>, <<"2", "5", "1", "1", "3">>,
          <<"2", "5", "a", "b", "3", "0">>}

IsoYears ==
  {<<"1", "9", "9", "9">>, <<"2", "0", "0", "0">>, <<"2", "0", "2", "5">>,
   <<"2", "0", "9", "9">>, <<"2", "1", "0", "0">>, <<"0", "0", "2", "5">>}

IsoFields == {<<"0", "0">>, <<"0", "1">>, <<"1", "2">>, <<"2", "5">>, <<"3", "1">>, <<"9", "9">>}

\* strings for iso_to_yymmdd: years of four centuries with months and days,
\* and the strings of the tests that are not of the form
IsoInputs ==
  {y \o <<"-">> \o mo \o <<"-">> \o d : y \in IsoYears, mo \in IsoFields, d \in IsoFields}
    \cup {<<"2", "0", "2", "5", "/", "1", "1", "/", "3", "0">>,
          <<"2", "5", "1", "1", "3", "0">>}

InitDate ==
  /\ MatcherIdle
  /\ admin = NoAdmin
  /\ auth = NoAuth
  /\ dl = NoDownload
  /\ pure \in {PureCall(fn, a) :
                 fn \in {"next_business_day", "previous_source_candidates_for_mapped"},
                 a \in DateInputs}
              \cup {PureCall("yymmdd_to_iso", a) : a \in YymmddInputs}
              \cup {PureCall("iso_to_yymmdd", a) : a \in IsoInputs}

\* next_business_day(yymmdd) returns or raises
CallNextBusinessDay ==
  /\ pure.fn = "next_business_day"
  /\ pure.step = 0
  /\ pure' = [pure EXCEPT !.out = next_business_day(pure.arg), !.step = 1]
  /\ UNCHANGED << matcher, admin, auth, dl >>

\* previous_source_candidates_for_mapped(yymmdd_mapped) returns or raises
CallPreviousSourceCandidates ==
  /\ pure.fn = "previous_source_candidates_for_mapped"
  /\ pure.step = 0
  /\ pure' = [pure EXCEPT !.out = previous_source_candidates_for_mapped(pure.arg),
                          !.step = 1]
  /\ UNCHANGED << matcher, admin, auth, dl >>

\* iso = yymmdd_to_iso(original)
CallYymmddToIso ==
  /\ pure.fn = "yymmdd_to_iso"
  /\ pure.step = 0
  /\ pure' = [pure EXCEPT !.out = yymmdd_to_iso(pure.arg), !.step = 1]
  /\ UNCHANGED << matcher, admin, auth, dl >>

\* result = iso_to_yymmdd(iso)
CallIsoToYymmddBack ==
  /\ pure.fn = "yymmdd_to_iso"
  /\ pure.step = 1
  /\ pure' = [pure EXCEPT !.again = iso_to_yymmdd(pure.out), !.step = 2]
  /\ UNCHANGED << matcher, admin, auth, dl >>

\* yymmdd = iso_to_yymmdd(original)
CallIsoToYymmdd ==
  /\ pure.fn = "iso_to_yymmdd"
  /\ pure.step = 0
  /\ pure' = [pure EXCEPT !.out = iso_to_yymmdd(pure.arg), !.step = 1]
  /\ UNCHANGED << matcher, admin, auth, dl >>

\* result = yymmdd_to_iso(yymmdd)
CallYymmddToIsoBack ==
  /\ pure.fn = "iso_to_yymmdd"
  /\ pure.step = 1
  /\ pure' = [pure EXCEPT !.again = yymmdd_to_iso(pure.out), !.step = 2]
  /\ UNCHANGED << matcher, admin, auth, dl >>

NextDate ==
  \/ CallNextBusinessDay
  \/ CallPreviousSourceCandidates
  \/ CallYymmddToIso
  \/ CallIsoToYymmddBack
  \/ CallIsoToYymmdd
  \/ CallYymmddToIsoBack

SpecDate == InitDate /\ [][NextDate]_vars

(***************************************************************************)
(* crawler/downloader.py: download_if_changed                              *)
(***************************************************************************)
\* what the source site may serve
Contents == {"v1", "v2"}

\* _hash_bytes(data): sha256, which tells the contents in use apart
_hash_bytes(data) == << "sha256", data >>

\* the dates a file may be saved under
D251128 == <<"2", "5", "1", "1", "2", "8">>
D251201 == <<"2", "5", "1", "2", "0", "1">>
SourceDates == {D251128, D251201}

\* f"{filename_prefix}{date_part}.{file_ext}"
FileName(filename_prefix, date_part, file_ext) == << filename_prefix, date_part, ".", file_ext >>

\* os.path.abspath(os.path.join(settings.SOURCES_DIR, filename))
AbsDest(filename) == << "sources", filename >>

\* the site: what it serves now and whether it sends ETag and Last-Modified
Servers == [content : Contents, validators : BOOLEAN]

ETagOf(server) == IF server.validators THEN Some(<< "etag", server.content >>) ELSE None

LastModifiedOf(server) == IF server.validators THEN Some(<< "modified", server.content >>) ELSE None

\* requests.get raised
RequestError == [kind |-> "error", status |-> 0, content |-> "", etag |-> None, last_modified |-> None]

\* a response without a body that matters
HttpStatus(status) == [kind |-> "http", status |-> status, content |-> "", etag |-> None, last_modified |-> None]

\* 200 with what the site serves
HttpOk(server) ==
  [kind |-> "http", status |-> 200, content |-> server.content,
   etag |-> ETagOf(server), last_modified |-> LastModifiedOf(server)]

\* lines 71-74: whether the request carries If-None-Match or If-Modified-Since
SendsValidators(cache) ==
  cache # None /\ (The(cache).etag # None \/ The(cache).last_modified # None)

\* what requests.get of line 78 may come back with: an exception, an error
\* status, 304 when validators were sent, or 200 with the content
FirstResponses(server, cache) ==
  {RequestError, HttpStatus(404), HttpOk(server)}
    \cup (IF SendsValidators(cache) THEN {HttpStatus(304)} ELSE {})

\* what requests.get of line 89, without validators, may come back with
SecondResponses(server) == {RequestError, HttpStatus(500), HttpOk(server)}

NoPath == [changed |-> FALSE, status |-> 0, path |-> None, content |-> None, filename |-> None]

\* the store as it was, with the result {"changed": False, "status": status, "path": None}
NoChange(cache, files, status) ==
  [cache |-> cache, files |-> files, result |-> [NoPath EXCEPT !.status = status]]

\* lines 103-115: the hash is the cached one
NoChangeWithBytes(cache, files, resp, filename, return_bytes) ==
  IF ~return_bytes THEN NoChange(cache, files, 200)
  ELSE [cache |-> cache, files |-> files,
        result |-> [NoPath EXCEPT !.status = 200, !.content = Some(resp.content),
                                  !.filename = Some(filename)]]

\* open(abs_dest, "wb").write(content)
WriteFile(files, path, content) ==
  {f \in files : f[1] # path} \cup {<< path, content >>}

\* lines 127-133: the cache entry of the url
NewEntry(resp, filename) ==
  [etag |-> resp.etag, last_modified |-> resp.last_modified,
   hash |-> _hash_bytes(resp.content), saved_as |-> filename]

\* lines 117-144: the file written, the cache entry replaced
Saved(files, resp, filename) ==
  [cache |-> Some(NewEntry(resp, filename)),
   files |-> WriteFile(files, AbsDest(filename), resp.content),
   result |-> [NoPath EXCEPT !.changed = TRUE, !.status = 200,
                             !.path = Some(AbsDest(filename))]]

\* line 103 as it would be if the hash were never the cached one
SameHashNever(cache, resp) == FALSE

\* line 103: entry.get("hash") == content_hash
SameHash(cache, resp) == cache # None /\ The(cache).hash = _hash_bytes(resp.content)

\* lines 97-144, for the response that holds the content
Fetched(cache, files, resp, filename, return_bytes) ==
  IF resp.status # 200 THEN NoChange(cache, files, resp.status)
  ELSE IF SameHash(cache, resp) THEN NoChangeWithBytes(cache, files, resp, filename, return_bytes)
  ELSE Saved(files, resp, filename)

\* lines 83-95: 304, and the request made again without validators
NotModified(cache, files, resp2, filename, return_bytes) ==
  IF ~return_bytes THEN NoChange(cache, files, 304)
  ELSE IF resp2.kind = "error" THEN NoChange(cache, files, 0)
  ELSE IF resp2.status # 200 THEN NoChange(cache, files, resp2.status)
  ELSE Fetched(cache, files, resp2, filename, return_bytes)

\* download_if_changed(url, filename_prefix, file_ext, date_override,
\* return_bytes_on_no_change) over the crawl cache entry of the url and the
\* files of SOURCES_DIR, given the responses of the two requests and the
\* file name built from date_override or today's date:
\* [cache, files, result]
download_if_changed(cache, files, filename, return_bytes, resp, resp2) ==
  IF resp.kind = "error" THEN NoChange(cache, files, 0)
  ELSE IF resp.status = 304 THEN NotModified(cache, files, resp2, filename, return_bytes)
  ELSE Fetched(cache, files, resp, filename, return_bytes)

\* date_override or _date_stamp()
DatePart(date_override, today) ==
  IF date_override # None THEN The(date_override) ELSE today

\* the response whose body the call read, if it read one: the first, or the
\* second after a 304 when the bytes were asked for
BodyRead(resp, resp2, return_bytes) ==
  IF resp.kind = "http" /\ resp.status = 200 THEN Some(resp)
  ELSE IF resp.kind = "http" /\ resp.status = 304 /\ return_bytes
          /\ resp2.kind = "http" /\ resp2.status = 200 THEN Some(resp2)
  ELSE None

\* the content the downloader has last read, as long as the site serves it
SeenAfter(seen, body) == IF body # None THEN Some(The(body).content) ELSE seen

NoLastDownload ==
  [return_bytes |-> FALSE, filename |-> << >>, body |-> None, result |-> NoPath,
   cache_before |-> None, files_before |-> {}, seen_before |-> None]

\* the state of the downloader after download_if_changed has returned r
Downloaded(d, filename, return_bytes, body, r) ==
  [called |-> TRUE, server |-> d.server, cache |-> r.cache, files |-> r.files,
   seen |-> SeenAfter(d.seen, body),
   last |-> [return_bytes |-> return_bytes, filename |-> filename, body |-> body,
             result |-> r.result, cache_before |-> d.cache,
             files_before |-> d.files, seen_before |-> d.seen]]

InitDownload ==
  /\ MatcherIdle
  /\ pure = NoPure
  /\ admin = NoAdmin
  /\ auth = NoAuth
  /\ dl \in {[called |-> FALSE, server |-> s, cache |-> None, files |-> {},
              seen |-> None, last |-> NoLastDownload] : s \in Servers}

\* the site changes what it serves, or whether it sends validators
ServerPublish ==
  /\ \E s \in Servers \ {dl.server} :
       dl' = [dl EXCEPT !.server = s,
                        !.seen = IF s.content = dl.server.content THEN dl.seen ELSE None]
  /\ UNCHANGED << matcher, pure, admin, auth >>

\* download_if_changed(settings.CRAWL_URL, ...) runs to its return
CallDownloadIfChanged ==
  /\ \E date_override \in {None} \cup {Some(d) : d \in SourceDates},
        today \in SourceDates, return_bytes \in BOOLEAN,
        resp \in FirstResponses(dl.server, dl.cache),
        resp2 \in SecondResponses(dl.server) :
       dl' = Downloaded(dl, FileName("auction_data_", DatePart(date_override, today), "csv"),
                        return_bytes, BodyRead(resp, resp2, return_bytes),
                        download_if_changed(dl.cache, dl.files,
                          FileName("auction_data_", DatePart(date_override, today), "csv"),
                          return_bytes, resp, resp2))
  /\ UNCHANGED << matcher, pure, admin, auth >>

NextDownload ==
  \/ ServerPublish
  \/ CallDownloadIfChanged

SpecDownload == InitDownload /\ [][NextDownload]_vars

(***************************************************************************)
(* api/v1/routes/admin.py: the admin routes                                *)
(***************************************************************************)
\* str.lower() on one character
LowerChar(c) ==
  IF c \in UpperLetters THEN CHOOSE l \in LowerLetters : LowerToUpper[l] = c ELSE c

\* text.lower()
Lower(text) == [i \in 1..Len(text) |-> LowerChar(text[i])]

\* where the words of a text begin
WordStarts(text) ==
  {i \in 1..Len(text) :
     text[i] \notin Whitespace /\ (i = 1 \/ text[i - 1] \in Whitespace)}

\* the word of a text that begins at i
WordFrom(text, i) ==
  Slice(text, i, Min({j \in i..Len(text) :
                        j = Len(text) \/ text[j + 1] \in Whitespace}))

\* the k-th of a set of positions
Nth(positions, k) ==
  CHOOSE i \in positions : Cardinality({j \in positions : j <= i}) = k

\* text.split()
Split(text) ==
  [k \in 1..Cardinality(WordStarts(text)) |-> WordFrom(text, Nth(WordStarts(text), k))]

\* lines 40-43, for the parts of the header
BearerOf(parts) ==
  IF Len(parts) = 2 /\ Lower(parts[1]) = <<"b", "e", "a", "r", "e", "r">>
  THEN Some(parts[2])
  ELSE None

\* _extract_bearer_token(authorization): None or Some(token)
_extract_bearer_token(authorization) ==
  IF ~Truthy(authorization) THEN None ELSE BearerOf(Split(The(authorization)))

\* line 117 as it would be if the X-Admin-Token header were not read
PresentedBearerOnly(authorization, x_admin_token) ==
  _extract_bearer_token(authorization)

\* _extract_bearer_token(authorization) or x_admin_token
PresentedToken(authorization, x_admin_token) ==
  IF Truthy(_extract_bearer_token(authorization))
  THEN _extract_bearer_token(authorization)
  ELSE x_admin_token

\* whether a str holds ASCII characters only
IsAscii(text) == \A i \in 1..Len(text) : text[i] \notin Hangul

\* secrets.compare_digest(a, b) of two str: TypeError when either holds a
\* character that is not ASCII: [raised, value]
compare_digest(a, b) ==
  IF IsAscii(a) /\ IsAscii(b)
  THEN [raised |-> FALSE, value |-> a = b]
  ELSE [raised |-> TRUE, value |-> FALSE]

\* the status of the answer when compare_digest has returned or raised: a
\* TypeError is not caught and FastAPI answers 500
ComparedStatus(compared) ==
  IF compared.raised THEN Some(500)
  ELSE IF ~compared.value THEN Some(401)
  ELSE None

\* _validate_admin_token(token): None when it returns, or Some(status) of
\* the answer when it raises
_validate_admin_token(token, ADMIN_TOKEN) ==
  IF ADMIN_TOKEN = << >> THEN Some(500)
  ELSE IF ~Truthy(token) THEN Some(401)
  ELSE ComparedStatus(compare_digest(The(token), ADMIN_TOKEN))

\* the configured token of the runs with one, and tokens that differ from it
Tok == <<"t", "o", "k">>
Bad == <<"b", "a", "d">>
BadNotAscii == <<"t", "o", "keu">>

BearerScheme == <<"B", "e", "a", "r", "e", "r", " ">>

\* the Authorization headers tried: none, Bearer with the token, in lower
\* case, with another token, with one that is not ASCII, another scheme
AuthorizationHeaders ==
  {None, Some(BearerScheme \o Tok), Some(Lower(BearerScheme) \o Tok),
   Some(BearerScheme \o Bad), Some(BearerScheme \o BadNotAscii),
   Some(<<"B", "a", "s", "i", "c", " ">> \o Tok)}

\* the X-Admin-Token headers tried
AdminTokenHeaders == {None, Some(Tok), Some(Bad)}

AdminRequests == [authorization : AuthorizationHeaders, x_admin_token : AdminTokenHeaders]

NoAdminRequest == [authorization |-> None, x_admin_token |-> None]

AdminSettings ==
  [ADMIN_TOKEN : {<< >>, Tok}, CRAWL_URL : BOOLEAN, SUPABASE_ENABLED : BOOLEAN]

NotADate == <<"2", "5", "a", "b", "3", "0">>

\* rows of a table keyed by date, after the rows of the date are replaced
Upsert(rows, date, content) ==
  {r \in rows : r[1] # date} \cup {<< date, content >>}

\* the bytes of the file at a path: None or Some(content)
FileContent(files, path) == {f[2] : f \in {g \in files : g[1] = path}}

\* the answer of a route, with the tables and the downloader as they are
\* after it, whether it called download_if_changed, and the tables, the
\* files and the crawl cache as they were before it
Answer(A, d, route, request, status, data, records, d2, downloaded) ==
  [admin |-> [A EXCEPT !.route = route, !.request = request, !.status = status,
                       !.auction_data = data, !.auction_records = records,
                       !.downloaded = downloaded,
                       !.body = None, !.calls = << >>, !.date = None,
                       !.force = FALSE,
                       !.before = [auction_data |-> A.auction_data,
                                   auction_records |-> A.auction_records,
                                   files |-> d.files, cache |-> d.cache]],
   dl |-> d2]

\* an HTTPException, or an exception that is not caught, before anything
\* was done
Refused(A, d, route, request, status) ==
  Answer(A, d, route, request, status, A.auction_data, A.auction_records, d, FALSE)

\* the dict a route returns, by the keys the routes share
AdminBody(exists_before, source, to_supabase, to_auction_records) ==
  Some([exists_before |-> exists_before, source |-> source,
        uploaded_to_supabase |-> to_supabase,
        uploaded_to_auction_records |-> to_auction_records])

\* an answer with what the route returned or, for an HTTPException, None,
\* and the calls it made to the repositories and the downloader, in order
Told(answer, body, calls) ==
  [answer EXCEPT !.admin.body = body, !.admin.calls = calls]

\* a call that returned, and one that raised
Returned(name) == << name, TRUE >>
Raising(name) == << name, FALSE >>
Called(name, returned) == << name, returned >>

\* the answers with the source date the route was asked for
ForDate(answers, date) == {[a EXCEPT !.admin.date = Some(date)] : a \in answers}

\* the answers with the force parameter of the crawl
Forced(answers, force) == {[a EXCEPT !.admin.force = force] : a \in answers}

\* supabase_repo.get_csv(date): the content stored for the date, or None
get_csv(rows, date) == {r[2] : r \in {q \in rows : q[1] = date}}

\* lines 269-273: a get_csv that raises counts as no document
ExistsBefore(rows, date, answered) ==
  IF answered THEN get_csv(rows, date) ELSE None

\* the rows of a table after save_csv(date, filename, content) was called:
\* replaced when it returns, as they were when it raises
Saved_csv(rows, date, content, returned) ==
  IF returned THEN Upsert(rows, date, content) ELSE rows

\* the content admin_crawl and admin_ensure_date take from the result: the
\* bytes of the file at result["path"], or else result["content"]
ResultContent(r) ==
  IF r.result.path # None THEN FileContent(r.files, The(r.result.path))
  ELSE r.result.content

\* download_if_changed with the bytes asked for, and the body it read
DownloadWithBytes(d, filename, resp, resp2) ==
  [body |-> BodyRead(resp, resp2, TRUE)]
    @@ download_if_changed(d.cache, d.files, filename, TRUE, resp, resp2)

\* the responses of the two requests of one call: the second is made after
\* a 304 only
ResponsePairs(server, cache) ==
  {<< resp, resp2 >> \in FirstResponses(server, cache) \X SecondResponses(server) :
     resp.status = 304 \/ resp2 = RequestError}

\* admin_crawl lines 165-185: supabase_repo.get_file_hash,
\* supabase_repo.get_latest_file_hash and auction_records_repo.exists are
\* not defined by the repositories, the AttributeError is caught, and
\* existing_hash and latest_hash stay None, auction_records_exists False
CrawlHashes ==
  [existing_hash |-> None, latest_hash |-> None, auction_records_exists |-> FALSE]

\* line 188
hash_changed(h, new_hash) ==
  h.existing_hash = None \/ Some(new_hash) # h.existing_hash

\* line 189
is_duplicate_of_latest(h, new_hash) ==
  h.latest_hash # None /\ Some(new_hash) = h.latest_hash

\* line 207, for content and filename that are not empty
should_upload_auction_data(h, new_hash, force) ==
  hash_changed(h, new_hash) \/ force

\* the mutant of should_upload_auction_records: the records are saved on a
\* forced crawl only
UploadRecordsWhenForced(h, new_hash, force) == force

\* line 227, for content and filename that are not empty
should_upload_auction_records(h, new_hash, force) ==
  hash_changed(h, new_hash) \/ ~h.auction_records_exists \/ force

\* the calls of lines 206-229 in order
CrawlCalls(to_data, to_records, saved, recorded) ==
  << Returned("download") >>
    \o (IF to_data THEN << Called("save_csv", saved) >> ELSE << >>)
    \o (IF to_records THEN << Called("save_records", recorded) >> ELSE << >>)

\* admin_crawl lines 206-238: the two saves, each caught when it raises
CrawlSaved(A, d, request, target_date, content, d2, to_data, to_records, saved, recorded) ==
  Told(Answer(A, d, "crawl", request, 200,
              Saved_csv(A.auction_data, target_date, content, to_data /\ saved),
              Saved_csv(A.auction_records, target_date, content,
                        to_records /\ recorded),
              d2, TRUE),
       AdminBody(FALSE, "none", to_data /\ saved, to_records /\ recorded),
       CrawlCalls(to_data, to_records, saved, recorded))

\* admin_crawl lines 187-238, with the content in hand
CrawlCompared(A, d, request, target_date, content, d2, force, h) ==
  IF is_duplicate_of_latest(h, _hash_bytes(content)) /\ ~force
  THEN {Told(Answer(A, d, "crawl", request, 200, A.auction_data,
                    A.auction_records, d2, TRUE),
             AdminBody(FALSE, "none", FALSE, FALSE), << Returned("download") >>)}
  ELSE {CrawlSaved(A, d, request, target_date, content, d2,
                   should_upload_auction_data(h, _hash_bytes(content), force),
                   should_upload_auction_records(h, _hash_bytes(content), force),
                   saved, recorded) : saved \in BOOLEAN, recorded \in BOOLEAN}

\* admin_crawl lines 143-238, given what download_if_changed returned
CrawlStored(A, d, request, target_date, filename, r, force) ==
  IF A.settings.SUPABASE_ENABLED /\ ResultContent(r) # None
  THEN CrawlCompared(A, d, request, target_date, The(ResultContent(r)),
                     Downloaded(d, filename, TRUE, r.body, r), force, CrawlHashes)
  ELSE {Told(Answer(A, d, "crawl", request, 200, A.auction_data,
                    A.auction_records,
                    Downloaded(d, filename, TRUE, r.body, r), TRUE),
             AdminBody(FALSE, "none", FALSE, FALSE), << Returned("download") >>)}

\* admin_crawl lines 122-240, for the source date
CrawlDated(A, d, request, src_date, target, force) ==
  IF target.raised THEN {Refused(A, d, "crawl", request, 500)}
  ELSE UNION {CrawlStored(A, d, request, target.value,
                          FileName("auction_data_", src_date, "csv"),
                          DownloadWithBytes(d, FileName("auction_data_", src_date, "csv"),
                                            rr[1], rr[2]),
                          force) : rr \in ResponsePairs(d.server, d.cache)}

\* the dates asked for (none, or one that is no date) and the day of the call
CrawlDates == {None, Some(NotADate)}
Today == D251128

\* admin_crawl lines 120-240, after the token check: every answer it can give
CrawlAllowed(A, d, request) ==
  IF ~A.settings.CRAWL_URL THEN {Refused(A, d, "crawl", request, 400)}
  ELSE UNION {Forced(ForDate(CrawlDated(A, d, request, DatePart(date, Today),
                                        next_business_day(DatePart(date, Today)),
                                        force),
                             DatePart(date, Today)), force) :
                date \in CrawlDates, force \in BOOLEAN}

\* admin_ensure_date lines 340-356: the upload of the download
EnsureUploaded(A, d, request, target_date, content, d2, calls) ==
  {Told(Answer(A, d, "ensure", request, 500, A.auction_data, A.auction_records,
               d2, TRUE),
        None, calls \o << Raising("save_csv") >>)}
  \cup
  {Told(Answer(A, d, "ensure", request, 200,
               Saved_csv(A.auction_data, target_date, content, TRUE),
               Saved_csv(A.auction_records, target_date, content, recorded),
               d2, TRUE),
        AdminBody(FALSE, "download", TRUE, recorded),
        calls \o << Returned("save_csv"), Called("save_records", recorded) >>) :
     recorded \in BOOLEAN}

\* admin_ensure_date lines 316-356, given what download_if_changed returned
EnsureDownloaded(A, d, request, target_date, filename, r, calls) ==
  IF ResultContent(r) = None
  THEN {Told(Answer(A, d, "ensure", request, 404, A.auction_data,
                    A.auction_records,
                    Downloaded(d, filename, TRUE, r.body, r), TRUE),
             None, calls)}
  ELSE EnsureUploaded(A, d, request, target_date, The(ResultContent(r)),
                      Downloaded(d, filename, TRUE, r.body, r), calls)

\* admin_ensure_date lines 306-356: step 3
EnsureByDownload(A, d, request, target_date, filename, calls) ==
  IF ~A.settings.CRAWL_URL
  THEN {Told(Refused(A, d, "ensure", request, 400), None, calls)}
  ELSE UNION {EnsureDownloaded(A, d, request, target_date, filename,
                               DownloadWithBytes(d, filename, rr[1], rr[2]),
                               calls \o << Returned("download") >>) :
                rr \in ResponsePairs(d.server, d.cache)}

\* the mutant of EnsureLocal: the local file is never looked at
EnsureLocalSkipped(A, d, request, target_date, filename, local, looked) ==
  EnsureByDownload(A, d, request, target_date, filename, looked)

\* admin_ensure_date lines 281-304: step 2, the local file uploaded, or the
\* fall through to step 3 when there is none or save_csv raised
EnsureLocal(A, d, request, target_date, filename, local, looked) ==
  IF local = None
  THEN EnsureByDownload(A, d, request, target_date, filename, looked)
  ELSE {Told(Answer(A, d, "ensure", request, 200,
                    Saved_csv(A.auction_data, target_date, The(local), TRUE),
                    Saved_csv(A.auction_records, target_date, The(local), recorded),
                    d, FALSE),
             AdminBody(FALSE, "local", TRUE, recorded),
             looked \o << Returned("save_csv"), Called("save_records", recorded) >>) :
          recorded \in BOOLEAN}
       \cup EnsureByDownload(A, d, request, target_date, filename,
                             looked \o << Raising("save_csv") >>)

\* admin_ensure_date lines 268-356, for the target date: step 1, whether
\* get_csv answered or raised
EnsureTarget(A, d, request, target_date, filename, answered) ==
  IF ExistsBefore(A.auction_data, target_date, answered) # None
  THEN {Told(Refused(A, d, "ensure", request, 200),
             AdminBody(TRUE, "none", FALSE, FALSE), << Returned("get_csv") >>)}
  ELSE EnsureLocal(A, d, request, target_date, filename,
                   FileContent(d.files, AbsDest(filename)),
                   << Called("get_csv", answered) >>)

\* the dates asked for
EnsureDates == {D251128, NotADate}

\* admin_ensure_date lines 260-360, after the token check: every answer it
\* can give
EnsureAllowed(A, d, request) ==
  IF ~A.settings.SUPABASE_ENABLED THEN {Refused(A, d, "ensure", request, 400)}
  ELSE UNION {ForDate(IF next_business_day(date).raised
                      THEN {Refused(A, d, "ensure", request, 500)}
                      ELSE UNION {EnsureTarget(A, d, request,
                                               next_business_day(date).value,
                                               FileName("auction_data_", date, "csv"),
                                               answered) : answered \in BOOLEAN},
                      date) :
                date \in EnsureDates}

\* the token check of both routes (lines 117-118, 257-258): None when it
\* passes, or Some(status) of the answer
TokenCheck(A, request) ==
  _validate_admin_token(PresentedToken(request.authorization, request.x_admin_token),
                        A.settings.ADMIN_TOKEN)

InitAdmin ==
  /\ MatcherIdle
  /\ pure = NoPure
  /\ auth = NoAuth
  /\ dl = [called |-> FALSE, server |-> [content |-> "v1", validators |-> TRUE],
           cache |-> None, files |-> {}, seen |-> None, last |-> NoLastDownload]
  /\ admin \in {[route |-> "none", settings |-> s, request |-> NoAdminRequest,
                 status |-> 0, auction_data |-> {}, auction_records |-> {},
                 downloaded |-> FALSE, body |-> None, calls |-> << >>,
                 date |-> None, force |-> FALSE,
                 before |-> [auction_data |-> {}, auction_records |-> {},
                             files |-> {}, cache |-> None]] :
                  s \in AdminSettings}

\* the state after a route has answered
AdminAnswered(answer) ==
  /\ admin' = answer.admin
  /\ dl' = answer.dl

\* POST /admin/crawl answers
AdminCrawl ==
  /\ \E request \in AdminRequests :
       IF TokenCheck(admin, request) # None
       THEN AdminAnswered(Refused(admin, dl, "crawl", request,
                                  The(TokenCheck(admin, request))))
       ELSE \E answer \in CrawlAllowed(admin, dl, request) : AdminAnswered(answer)
  /\ UNCHANGED << matcher, pure, auth >>

\* POST /admin/ensure/{date} answers
AdminEnsureDate ==
  /\ \E request \in AdminRequests :
       IF TokenCheck(admin, request) # None
       THEN AdminAnswered(Refused(admin, dl, "ensure", request,
                                  The(TokenCheck(admin, request))))
       ELSE \E answer \in EnsureAllowed(admin, dl, request) : AdminAnswered(answer)
  /\ UNCHANGED << matcher, pure, auth >>

NextAdmin ==
  \/ AdminCrawl
  \/ AdminEnsureDate

SpecAdmin == InitAdmin /\ [][NextAdmin]_vars


\* ------------------------------------------------------------------------
\* app/utils/auth.py, app/repositories/users_repo.py and the logout route of
\* app/api/v1/routes/auth.py.  Time is counted in ticks, TicksPerSecond to the
\* second, so that a datetime (a whole number of ticks) can fall inside a
\* second while a JWT NumericDate (iat, exp) is a whole number of seconds.
\* ------------------------------------------------------------------------

TicksPerSecond == 3
MaxTime == 4
MaxExpire == 1
MaxTokens == 2

\* the rows of the users table
UserIds == {"u1"}

\* the email column of the users table
EmailOf(user_id) == "a@x"

\* datetime -> NumericDate, as jwt.encode stores a datetime claim
NumericDate(datetime) == datetime \div TicksPerSecond

\* NumericDate -> datetime, as datetime.fromtimestamp(iat, tz=utc) reads it
FromTimestamp(seconds) == seconds * TicksPerSecond

create_access_token(A, user_id, email) ==
  IF ~A.settings.JWT_SECRET_KEY
  THEN [raised |-> TRUE, value |-> None]
  ELSE [raised |-> FALSE,
        value |-> Some([sub |-> user_id, email |-> email,
                        exp |-> NumericDate(A.now
                                  + FromTimestamp(A.settings.JWT_EXPIRE)),
                        iat |-> NumericDate(A.now),
                        signed |-> TRUE])]

\* jwt.decode: the signature first, then exp against the clock
decode_access_token(A, token) ==
  IF ~A.settings.JWT_SECRET_KEY THEN [status |-> 500, payload |-> None]
  ELSE IF ~token.signed THEN [status |-> 401, payload |-> None]
  ELSE IF FromTimestamp(token.exp) <= A.now THEN [status |-> 401, payload |-> None]
  ELSE [status |-> 200, payload |-> Some(token)]

\* users_repo.get_by_id by what the REST service answers: the row, a 404, or
\* another error status that raise_for_status raises
get_by_id(A, user_id, db) ==
  IF db = "404" THEN [raised |-> FALSE, value |-> None]
  ELSE IF db = "error" THEN [raised |-> TRUE, value |-> None]
  ELSE [raised |-> FALSE,
        value |-> Some([id |-> user_id, email |-> EmailOf(user_id),
                        last_logout_at |-> A.users[user_id]])]

\* the mutant of LoggedOut: last_logout_at cut to whole seconds
LoggedOutWholeSeconds(payload, user) ==
  /\ user # None
  /\ The(user).last_logout_at # None
  /\ payload.iat < NumericDate(The(The(user).last_logout_at))

\* get_current_user, lines 234-238: token_iat < last_logout
LoggedOut(payload, user) ==
  /\ user # None
  /\ The(user).last_logout_at # None
  /\ FromTimestamp(payload.iat) < The(The(user).last_logout_at)

Rejected(status) == [status |-> status, body |-> None, user |-> None, read |-> FALSE]

\* get_current_user after the token has been decoded
CurrentUserOf(payload, found) ==
  IF found.raised THEN Rejected(500)
  ELSE IF LoggedOut(payload, found.value)
  THEN [status |-> 401, body |-> None, user |-> found.value, read |-> TRUE]
  ELSE [status |-> 200,
        body |-> Some([id |-> payload.sub, email |-> payload.email]),
        user |-> found.value, read |-> TRUE]

get_current_user(A, credentials, db) ==
  IF credentials = None THEN Rejected(401)
  ELSE IF decode_access_token(A, The(credentials)).status # 200
  THEN Rejected(decode_access_token(A, The(credentials)).status)
  ELSE CurrentUserOf(The(credentials), get_by_id(A, The(credentials).sub, db))

\* users_repo.update_last_logout: the PATCH stores now() when the service
\* answers 200/204; any other status is logged and nothing is raised
update_last_logout(A, user_id, patch) ==
  IF patch = "error" THEN [raised |-> TRUE, users |-> A.users]
  ELSE IF patch = "ok"
  THEN [raised |-> FALSE,
        users |-> [A.users EXCEPT ![user_id] = Some(A.now)]]
  ELSE [raised |-> FALSE, users |-> A.users]

\* a token of no valid signature
Forged ==
  [sub |-> "u1", email |-> "a@x", exp |-> MaxTime, iat |-> 0, signed |-> FALSE]

Credentials(A) == {None, Some(Forged)} \cup {Some(t.token) : t \in A.issued}

DbAnswers == {"ok", "404", "error"}
PatchAnswers == {"ok", "refused", "error"}

NoAuthRequest == [credentials |-> None]

AuthSettings ==
  {[JWT_SECRET_KEY |-> k, JWT_EXPIRE |-> e] : k \in BOOLEAN, e \in 1..MaxExpire}

InitAuth ==
  /\ MatcherIdle
  /\ pure = NoPure
  /\ admin = NoAdmin
  /\ dl = NoDownload
  /\ auth \in {[route |-> "none", settings |-> s, now |-> 0,
                users |-> [u \in UserIds |-> None], issued |-> {},
                reported |-> [u \in UserIds |-> None],
                request |-> NoAuthRequest, status |-> 0, body |-> None,
                user |-> None, read |-> FALSE] : s \in AuthSettings}

\* the clock advances
Tick ==
  /\ auth.now < MaxTime
  /\ auth' = [auth EXCEPT !.now = @ + 1]
  /\ UNCHANGED << matcher, pure, admin, dl >>

\* a user signs in and is handed create_access_token's token
Login ==
  /\ Cardinality(auth.issued) < MaxTokens
  /\ \E u \in UserIds :
       auth' = IF create_access_token(auth, u, EmailOf(u)).raised
               THEN [auth EXCEPT !.route = "login", !.status = 500,
                                 !.request = NoAuthRequest, !.body = None,
                                 !.user = None, !.read = FALSE]
               ELSE [auth EXCEPT !.route = "login", !.status = 200,
                                 !.request = NoAuthRequest, !.body = None,
                                 !.user = None, !.read = FALSE,
                                 !.issued = @ \cup
                                   {[token |-> The(create_access_token(
                                                 auth, u, EmailOf(u)).value),
                                     at |-> auth.now]}]
  /\ UNCHANGED << matcher, pure, admin, dl >>

\* the state after a route that depends on get_current_user has answered
AuthAnswered(route, credentials, answer, status, users, reported) ==
  auth' = [auth EXCEPT !.route = route,
                       !.request = [credentials |-> credentials],
                       !.status = status, !.body = answer.body,
                       !.user = answer.user, !.read = answer.read,
                       !.users = users, !.reported = reported]

\* whether get_current_user gets as far as the users table
Decoded(A, credentials) ==
  /\ credentials # None
  /\ decode_access_token(A, The(credentials)).status = 200

\* the answers of the users table that a request can meet
DbAnswersFor(A, credentials) ==
  IF Decoded(A, credentials) THEN DbAnswers ELSE {"ok"}

\* a request to a route that depends on get_current_user (GET /auth/me)
Me ==
  /\ \E credentials \in Credentials(auth) :
       \E db \in DbAnswersFor(auth, credentials) :
         AuthAnswered("me", credentials,
                      get_current_user(auth, credentials, db),
                      get_current_user(auth, credentials, db).status,
                      auth.users, auth.reported)
  /\ UNCHANGED << matcher, pure, admin, dl >>

\* POST /auth/logout once get_current_user has let the request in
LoggedOutBy(A, credentials, answer, updated) ==
  IF updated.raised
  THEN AuthAnswered("logout", credentials, answer, 500, updated.users,
                    A.reported)
  ELSE AuthAnswered("logout", credentials, answer, 200, updated.users,
                    [A.reported EXCEPT ![The(answer.body).id] = Some(A.now)])

logout ==
  /\ \E credentials \in Credentials(auth) :
       \E db \in DbAnswersFor(auth, credentials) :
         IF get_current_user(auth, credentials, db).status # 200
         THEN AuthAnswered("logout", credentials,
                           get_current_user(auth, credentials, db),
                           get_current_user(auth, credentials, db).status,
                           auth.users, auth.reported)
         ELSE \E patch \in PatchAnswers :
                LoggedOutBy(auth, credentials,
                            get_current_user(auth, credentials, db),
                            update_last_logout(auth, The(credentials).sub, patch))
  /\ UNCHANGED << matcher, pure, admin, dl >>

NextAuth ==
  \/ Tick
  \/ Login
  \/ Me
  \/ logout

SpecAuth == InitAuth /\ [][NextAuth]_vars

\* ------------------------------------------------------------------------
\* app/services/csv_service.py: list_available_dates and
\* get_csv_path_for_date, over the files of SOURCES_DIR and the dates of the
\* two tables
\* ------------------------------------------------------------------------

\* str.startswith and str.endswith
StartsWith(text, prefix) ==
  Len(text) >= Len(prefix) /\ SubSeq(text, 1, Len(prefix)) = prefix

EndsWith(text, suffix) ==
  Len(text) >= Len(suffix)
    /\ SubSeq(text, Len(text) - Len(suffix) + 1, Len(text)) = suffix

\* the order of the characters of dates in Python's comparison of str
CharOrder ==
  [c \in Digits \cup {"-"} |->
     IF c = "-" THEN 0 ELSE 1 + (CHOOSE n \in 0..9 : DigitChars[n + 1] = c)]

\* a < b for two str of such characters
StrLess(a, b) ==
  \E i \in 1..Len(b) :
    /\ \A j \in 1..(i - 1) : j <= Len(a) /\ a[j] = b[j]
    /\ i > Len(a) \/ CharOrder[a[i]] < CharOrder[b[i]]

\* sorted(values, reverse=True)
SortedReverse(values) ==
  [i \in 1..Cardinality(values) |->
     CHOOSE x \in values : Cardinality({y \in values : StrLess(x, y)}) = i - 1]

\* `if limit and len(result) > limit: result = result[:limit]`
Limited(result, limit) ==
  IF limit # None /\ The(limit) # 0 /\ Len(result) > The(limit)
  THEN SubSeq(result, 1, The(limit))
  ELSE result

FilePrefix == <<"a", "u", "c", "t", "i", "o", "n", "_", "d", "a", "t", "a", "_">>
FileSuffix == <<".", "c", "s", "v">>

\* lines 62-63: the name with the prefix and the suffix taken out
SourceDateOfName(name) == RemoveAll(FileSuffix, RemoveAll(FilePrefix, name))

\* lines 61-69: whether the file adds a date
IsSourceFile(name) ==
  /\ StartsWith(name, FilePrefix)
  /\ EndsWith(name, FileSuffix)
  /\ Len(SourceDateOfName(name)) = 6
  /\ IsDigit(SourceDateOfName(name))
  /\ ~next_business_day(SourceDateOfName(name)).raised

\* lines 58-70: mapped
MappedDates(files) ==
  {next_business_day(SourceDateOfName(name)).value :
     name \in {n \in files : IsSourceFile(n)}}

\* auction_records_repo.list_dates(limit): the auction_date column holds
\* yymmdd_to_iso(date) of the dates saved
RecordsListDates(auction_records, limit) ==
  Limited(SortedReverse({yymmdd_to_iso(d) : d \in auction_records}), limit)

\* supabase_repo.list_dates(): the date column holds the dates saved as they
\* were given, ordered by date.desc
DataListDates(auction_data) == SortedReverse(auction_data)

\* list_available_dates(limit) over the store S: the settings, the dates of
\* the two tables, whether each list_dates returns, and the file names
list_available_dates(S, limit) ==
  IF S.SUPABASE_ENABLED /\ S.records_up
  THEN RecordsListDates(S.auction_records, limit)
  ELSE IF S.SUPABASE_ENABLED /\ S.data_up
  THEN Limited(DataListDates(S.auction_data), limit)
  ELSE Limited(SortedReverse(MappedDates(S.files)), limit)

\* f"auction_data_{date}.csv"
CsvName(date) == FilePrefix \o date \o FileSuffix

\* the mutant of FirstCandidateFile: no candidate is looked up
NoCandidateFile(files, candidates) == None

\* lines 85-89: the first candidate that has a file
FirstCandidateFile(files, candidates) ==
  IF \E i \in 1..Len(candidates) : CsvName(candidates[i]) \in files
  THEN Some(CsvName(candidates[Min({i \in 1..Len(candidates) :
                                       CsvName(candidates[i]) \in files})]))
  ELSE None

\* lines 85-92, for the candidates of the date
PathAmong(files, date, found) ==
  IF found # None THEN [raised |-> FALSE, path |-> found, filename |-> The(found)]
  ELSE [raised |-> FALSE,
        path |-> IF CsvName(date) \in files THEN Some(CsvName(date)) ELSE None,
        filename |-> CsvName(date)]

\* get_csv_path_for_date(date): (path, filename), the path None or the name
\* of a file of SOURCES_DIR
get_csv_path_for_date(S, date) ==
  IF S.SUPABASE_ENABLED
  THEN [raised |-> FALSE, path |-> None, filename |-> CsvName(date)]
  ELSE IF previous_source_candidates_for_mapped(date).raised
  THEN [raised |-> TRUE, path |-> None, filename |-> CsvName(date)]
  ELSE PathAmong(S.files, date,
                 FirstCandidateFile(S.files,
                                    previous_source_candidates_for_mapped(date).value))

\* source files of a Thursday, a Friday, a Saturday and the last day of
\* 2099, a name whose date no month has, a name with four digits, and the
\* crawl cache, which lies in the same directory
FilePool ==
  {CsvName(<<"2", "5", "1", "1", "2", "7">>), CsvName(<<"2", "5", "1", "1", "2", "8">>), CsvName(<<"2", "5", "1", "1", "2", "9">>), CsvName(<<"9", "9", "1", "2", "3", "1">>),
   CsvName(<<"2", "5", "1", "3", "0", "1">>), CsvName(<<"2", "5", "1", "1">>), <<".", "c", "r", "a", "w", "l", "_", "c", "a", "c", "h", "e", ".", "j", "s", "o", "n">>}

Limits == {None, Some(0), Some(1), Some(2)}

TableDates == {{}, {<<"2", "5", "1", "2", "0", "1">>}, {<<"2", "5", "1", "1", "2", "8">>, <<"2", "5", "1", "2", "0", "1">>}, {<<"2", "5", "1", "1", "2", "7">>, <<"2", "5", "1", "1", "2", "8">>, <<"2", "5", "1", "2", "0", "1">>}}

\* the stores of local mode, and those with Supabase enabled
LocalStores ==
  {[SUPABASE_ENABLED |-> FALSE, records_up |-> FALSE, data_up |-> FALSE,
    auction_records |-> {}, auction_data |-> {}, files |-> f] :
     f \in SUBSET FilePool}

RemoteStores ==
  {[SUPABASE_ENABLED |-> TRUE, records_up |-> r, data_up |-> u,
    auction_records |-> ar, auction_data |-> ad,
    files |-> f] :
     r \in BOOLEAN, u \in BOOLEAN, ar \in TableDates, ad \in TableDates,
     f \in {{}, {CsvName(<<"2", "5", "1", "1", "2", "7">>)}}}

InitDates ==
  /\ MatcherIdle
  /\ admin = NoAdmin
  /\ auth = NoAuth
  /\ dl = NoDownload
  /\ pure \in {PureCall("list_available_dates", [store |-> S, limit |-> l]) :
                 S \in LocalStores \cup RemoteStores, l \in Limits}
              \cup {PureCall("next_business_day", a) : a \in DateInputs}

\* list_available_dates(limit) returns
CallListAvailableDates ==
  /\ pure.fn = "list_available_dates"
  /\ pure.step = 0
  /\ pure' = [pure EXCEPT !.out = Some(list_available_dates(pure.arg.store,
                                                             pure.arg.limit)),
                          !.step = 1]
  /\ UNCHANGED << matcher, admin, auth, dl >>

\* get_csv_path_for_date(date) returns or raises for a date of the list
CallGetCsvPathForDate ==
  /\ pure.fn = "list_available_dates"
  /\ pure.step = 1
  /\ \E i \in 1..Len(The(pure.out)) :
       pure' = [pure EXCEPT !.again = Some([date |-> The(pure.out)[i]]
                                 @@ get_csv_path_for_date(pure.arg.store,
                                                          The(pure.out)[i])),
                            !.step = 2]
  /\ UNCHANGED << matcher, admin, auth, dl >>

\* previous_source_candidates_for_mapped(mapped) for the mapped date that
\* next_business_day returned
CallCandidatesOfMapped ==
  /\ pure.fn = "next_business_day"
  /\ pure.step = 1
  /\ ~pure.out.raised
  /\ pure' = [pure EXCEPT
                !.again = previous_source_candidates_for_mapped(pure.out.value),
                !.step = 2]
  /\ UNCHANGED << matcher, admin, auth, dl >>

NextDates ==
  \/ CallListAvailableDates
  \/ CallGetCsvPathForDate
  \/ CallNextBusinessDay
  \/ CallCandidatesOfMapped

SpecDates == InitDates /\ [][NextDates]_vars

\* ------------------------------------------------------------------------
\* app/repositories/auction_records_repo.py: _parse_csv_content over the rows
\* that csv.DictReader yields.  A row is the record of its fields; a field is
\* None where the line was shorter than the header (DictReader's restval).
\* ------------------------------------------------------------------------

\* int(cleaned): an optional sign and decimal digits, else ValueError
IntOf(cleaned) ==
  IF IsDigit(cleaned) THEN Some(ParseInt(cleaned))
  ELSE IF Len(cleaned) > 1 /\ cleaned[1] = "+" /\ IsDigit(Tail(cleaned))
  THEN Some(ParseInt(Tail(cleaned)))
  ELSE IF Len(cleaned) > 1 /\ cleaned[1] = "-" /\ IsDigit(Tail(cleaned))
  THEN Some(0 - ParseInt(Tail(cleaned)))
  ELSE None

\* _safe_int(value): None or Some(int)
_safe_int(value) ==
  IF ~Truthy(value) THEN None
  ELSE IntOf(Strip(RemoveAll(<< "," >>, The(value))))

\* `text or None`
OrNone(text) == IF text # << >> THEN Some(text) ELSE None

\* _parse_csv_row(row, date, filename): the fields of the record that the
\* key and the order of the records are read from.  It raises where
\* row.get("auction_name", "") is None, which has no strip().
_parse_csv_row(row, date, filename) ==
  IF row.auction_name = None THEN [raised |-> TRUE, value |-> None]
  ELSE [raised |-> FALSE,
        value |-> Some([car_number |-> Strip(row.car_number),
                        auction_date |-> yymmdd_to_iso(date),
                        sell_number |-> _safe_int(row.sell_number),
                        auction_house |-> OrNone(Strip(The(row.auction_name))),
                        source_filename |-> filename])]

\* the mutant of KeyOf: the car number is part of the key
KeyWithCarNumber(record) ==
  << record.auction_date, record.sell_number, record.auction_house,
     record.car_number >>

\* line 162: key
KeyOf(record) ==
  << record.auction_date, record.sell_number, record.auction_house >>

\* lines 163-167 for one record: [rows, seen_keys] after it
RowKept(record, acc) ==
  IF KeyOf(record) \in acc.seen_keys THEN acc
  ELSE [rows |-> Append(acc.rows, record),
        seen_keys |-> acc.seen_keys \cup {KeyOf(record)}]

\* the loop of lines 156-167 from row k on: [raised, value]
RECURSIVE ParseRows(_, _, _, _, _)
ParseRows(csv_rows, k, date, filename, acc) ==
  IF k > Len(csv_rows) THEN [raised |-> FALSE, value |-> acc.rows]
  ELSE IF _parse_csv_row(csv_rows[k], date, filename).raised
  THEN [raised |-> TRUE, value |-> << >>]
  ELSE ParseRows(csv_rows, k + 1, date, filename,
                 RowKept(The(_parse_csv_row(csv_rows[k], date, filename).value), acc))

\* _parse_csv_content(date, filename, content), csv_rows being the rows of the
\* content: [raised, value]
_parse_csv_content(date, filename, csv_rows) ==
  ParseRows(csv_rows, 1, date, filename, [rows |-> << >>, seen_keys |-> {}])

\* the most rows a file has
MaxRows == 3

\* sell_number fields: empty, 1, 1 with a blank and a leading zero, and 10
\* with a comma
SellNumberFields ==
  {Some(<< >>), Some(<< "1" >>), Some(<< " ", "0", "1" >>),
   Some(<< "1", ",", "0" >>)}

\* auction_name fields: empty, and one name with and without blanks
AuctionNameFields == {Some(<< >>), Some(<< "A" >>), Some(<< " ", "A" >>)}

\* the car number of the k-th line of the file
CarNumberOfLine == << << "c", "1" >> , << "c", "2" >>, << "c", "3" >>,
                      << "c", "4" >>, << "c", "5" >> >>

\* the fields of a line: every pair of the two, and a line that ends before
\* its auction_name
RowFields ==
  [sell_number : SellNumberFields, auction_name : AuctionNameFields]
    \cup {[sell_number |-> Some(<< "1" >>), auction_name |-> None]}

\* the call starts from a content without lines
InitRecords ==
  /\ MatcherIdle
  /\ admin = NoAdmin
  /\ auth = NoAuth
  /\ dl = NoDownload
  /\ pure = PureCall("_parse_csv_content", << >>)

\* the content to be parsed has one more line, of up to MaxRows
ContentLine ==
  /\ pure.fn = "_parse_csv_content"
  /\ pure.step = 0
  /\ Len(pure.arg) < MaxRows
  /\ \E f \in RowFields :
       pure' = [pure EXCEPT
                  !.arg = Append(@, [car_number |-> CarNumberOfLine[Len(@) + 1],
                                     sell_number |-> f.sell_number,
                                     auction_name |-> f.auction_name])]
  /\ UNCHANGED << matcher, admin, auth, dl >>

\* _parse_csv_content(date, filename, content) returns or raises (save_csv,
\* line 221)
CallParseCsvContent ==
  /\ pure.fn = "_parse_csv_content"
  /\ pure.step = 0
  /\ pure' = [pure EXCEPT
                !.out = _parse_csv_content(D251128, CsvName(D251128), pure.arg),
                !.step = 1]
  /\ UNCHANGED << matcher, admin, auth, dl >>

NextRecords ==
  \/ ContentLine
  \/ CallParseCsvContent

SpecRecords == InitRecords /\ [][NextRecords]_vars
(***************************************************************************)
(* Properties                                                              *)
(***************************************************************************)
\* the ids a catalog gives its manufacturers and its models
ManufacturerIds(data) ==
  {AllManufacturers(data)[i].id : i \in 1..Len(AllManufacturers(data))}

ModelIdsOf(mfr) == {mfr.models[i].id : i \in 1..Len(mfr.models)}

ModelIds(data) ==
  UNION {ModelIdsOf(AllManufacturers(data)[i]) : i \in 1..Len(AllManufacturers(data))}

ModelNames(data) ==
  UNION {{AllManufacturers(data)[i].models[k].model :
            k \in 1..Len(AllManufacturers(data)[i].models)} :
         i \in 1..Len(AllManufacturers(data))}

\* the manufacturers of a catalog that carry the label
ManufacturersLabelled(data, label) ==
  {AllManufacturers(data)[i] : i \in {k \in 1..Len(AllManufacturers(data)) :
                                        AllManufacturers(data)[k].label = label}}

\* both ids of a record come from the one catalog
FromOneCatalog(r, data) ==
  /\ r.manufacturer_id = None \/ The(r.manufacturer_id) \in ManufacturerIds(data)
  /\ r.model_id = None \/ The(r.model_id) \in ModelIds(data)

\* C1: while reload_car_models runs beside match_car_model, no returned
\* record has its manufacturer_id from one generation of the catalog and its
\* model_id from another.
C1_OneGeneration ==
  (last.op = "match_car_model" /\ ~last.raised)
    => \E data \in Generations : FromOneCatalog(last.match.value, data)

\* C2: when the manufacturer extracted from the title is a manufacturer of
\* the catalog in use, the model match_car_model returns is one of that
\* manufacturer's models.
C2_OwnModelsOnly ==
  (/\ last.op = "match_car_model"
   /\ ~last.raised
   /\ last.catalog # None
   /\ last.match.value.model_id # None
   /\ _extract_manufacturer_from_title(The(last.title)).label # None)
    => \A mfr \in ManufacturersLabelled(
                    The(last.catalog),
                    The(_extract_manufacturer_from_title(The(last.title)).label)) :
         The(last.match.value.model_id) \in ModelIdsOf(mfr)

ModelXM3 == <<"X", "M", "3">>
ModelM3 == <<"M", "3">>

\* a character that may not stand next to a matched model key
WordChar(c) == c \in AsciiAlnum \cup Hangul

\* word stands in text as a token of its own
HasToken(word, text) ==
  \E i \in Occurrences(word, text, 1) :
    /\ i = 1 \/ ~WordChar(text[i - 1])
    /\ i + Len(word) > Len(text) \/ ~WordChar(text[i + Len(word)])

\* C3: for a title whose model token is XM3, with XM3 and M3 both in the
\* catalog, match_car_model resolves model XM3.
C3_WholeTokenOnly ==
  (/\ last.op = "match_car_model"
   /\ ~last.raised
   /\ last.catalog # None
   /\ {ModelXM3, ModelM3} \subseteq ModelNames(The(last.catalog))
   /\ HasToken(ModelXM3, The(last.title)))
    => last.match.value.model_name = Some(ModelXM3)

\* C4: parse_title of the empty string or of None raises nothing and
\* returns the record with all nine fields None.
C4_EmptyTitle ==
  (last.op = "parse_title" /\ ~Truthy(last.title))
    => (~last.raised /\ last.parsed = ParsedTitle)

C4_Witness ==
  /\ last.op = "parse_title"
  /\ last.title = None
  /\ last.parsed = ParsedTitle
  /\ _MFR_INDEX # None

\* the three ids of the record the last call returned
LastIds ==
  IF last.op = "parse_title"
  THEN << last.parsed.manufacturer_id, last.parsed.model_id, last.parsed.trim_id >>
  ELSE << last.match.value.manufacturer_id, last.match.value.model_id,
          last.match.value.trim_id >>

\* C5: a call that loads the catalog from a missing or corrupt file raises
\* nothing, returns None for the three ids, and leaves the empty catalog
\* loaded.
C5_DegradedNotFatal ==
  (/\ last.op # "none"
   /\ Truthy(last.title)
   /\ last.fresh
   /\ ~(last.file.exists /\ last.file.valid))
    => /\ ~last.raised
       /\ LastIds = << None, None, None >>
       /\ last.catalog = Some(EmptyCatalog)

\* the places in a title where a year range stands
YearRangeStarts(title) ==
  {i \in 1..Len(title) : MatchFrom(TRIM_YEAR_PATTERN, 1, title, i).ok}

\* the start year of the last year range in a title
LastTitleYear(title) ==
  YearOf(title, MatchFrom(TRIM_YEAR_PATTERN, 1, title, Max(YearRangeStarts(title))))

\* C6: for a title with more than one year range, _find_best_trim returns
\* what scoring the trims against the last range of the title gives.
C6_LastYearRange ==
  (/\ trimcall.called
   /\ trimcall.trims # << >>
   /\ Cardinality(YearRangeStarts(trimcall.title)) > 1)
    => trimcall.result =
         BestTrimResult(trimcall.trims,
                        BestTrimLoop(trimcall.trims, 1, LastTitleYear(trimcall.title),
                                     trimcall.title, trimcall.fuel_type,
                                     [best_trim |-> None, best_score |-> -1]))

\* the generation code a trim name embeds, as in "(B9)", is in the title
CodeInTitle(trim_name, code_match, title) ==
  /\ code_match.ok
  /\ HasToken(Slice(trim_name, code_match.start + 1, code_match.ends[3]), title)

HasCodeMatch(trim, title) ==
  CodeInTitle(trim.trim, ReSearch(GenerationCodePattern, trim.trim), title)

\* the trim matches the title by its year range and not by a generation code
YearMatchOnly(trim, title) ==
  /\ ~HasCodeMatch(trim, title)
  /\ YearScore(trim.trim, TitleYear(title)) > 0

\* C7: when one trim's generation code is in the title and another trim
\* matches the title by year range only, _find_best_trim returns the trim
\* with the generation code (no fuel hint or keyword taking part).
C7_GenerationCodeWins ==
  (/\ trimcall.called
   /\ trimcall.fuel_type = None
   /\ \A k \in 1..Len(trimcall.trims) :
        KeywordScore(trimcall.trims[k].trim, trimcall.title) = 0)
    => \A i, j \in 1..Len(trimcall.trims) :
         (/\ HasCodeMatch(trimcall.trims[i], trimcall.title)
          /\ YearMatchOnly(trimcall.trims[j], trimcall.title)
          /\ \A k \in 1..Len(trimcall.trims) :
               HasCodeMatch(trimcall.trims[k], trimcall.title)
                 => trimcall.trims[k] = trimcall.trims[i])
           => trimcall.result = Some(trimcall.trims[i])

\* every trim of the call scores below zero
AllBelowZero ==
  \A i \in 1..Len(trimcall.trims) :
    TrimScore(trimcall.trims[i], TitleYear(trimcall.title), trimcall.title,
              trimcall.fuel_type) < 0

MatchIds(m) ==
  IF m.raised THEN << None, None, None >>
  ELSE << m.value.manufacturer_id, m.value.model_id, m.value.trim_id >>

\* a name the catalog match set is the one in the record
Kept(name, field) == Truthy(name) => field = name

\* C9: the ids of the record parse_title returns are those of its
\* match_car_model call, and a manufacturer, model or trim the catalog
\* match set is returned unchanged.
C9_FallbackKeepsMatch ==
  (last.op = "parse_title" /\ Truthy(last.title))
    => /\ ~last.raised
       /\ LastIds = MatchIds(last.match)
       /\ ~last.match.raised
            => /\ Kept(last.match.value.manufacturer_name, last.parsed.manufacturer)
               /\ Kept(last.match.value.model_name, last.parsed.model)
               /\ Kept(last.match.value.trim_name, last.parsed.trim)

C9_Witness ==
  /\ last.op = "parse_title"
  /\ ~last.match.raised
  /\ last.match.value.manufacturer_id # None
  /\ last.match.value.model_id = None
  /\ last.parsed.manufacturer = last.match.value.manufacturer_name
  /\ last.parsed.model # None
  /\ last.parsed.engine_cc # None

\* C10: a parse_title call with the title of a remembered call, with no
\* reload since and the same catalog loaded, returns a record equal to the
\* remembered one in every field.
C10_Deterministic ==
  (/\ probe.set
   /\ last.op = "parse_title"
   /\ last.title = probe.title
   /\ last.catalog = probe.catalog)
    => last.parsed = probe.parsed

C10_Witness ==
  /\ probe.set
  /\ probe.fresh
  /\ probe.between
  /\ last.op = "parse_title"
  /\ last.title = probe.title
  /\ last.catalog = probe.catalog
  /\ ~last.fresh
  /\ last.parsed = probe.parsed
  /\ last.parsed.model_id # None

\* the seven canonical fuel values
CanonicalFuels ==
  {<<"ga", "sol", "rin">>,
   <<"di", "jel">>,
   <<"L", "P", "G">>,
   <<"jeon", "gi">>,
   <<"ha", "ii", "beu", "ri", "deu">>,
   <<"peul", "reo", "geu", "in", "ha", "ii", "beu", "ri", "deu">>,
   <<"su", "so">>}

\* a raw fuel field that is empty, a usage marker, or no key of the fuel table
NotAFuel(raw_fuel) ==
  \/ ~Truthy(raw_fuel)
  \/ Strip(The(raw_fuel)) \notin Keys(FUEL_TYPE_ALIASES)

C12_ScoreIdempotent ==
  /\ (pure.fn = "normalize_score" /\ pure.step = 2) => pure.again = pure.out
  /\ (pure.fn = "normalize_score" /\ pure.step >= 1
        /\ pure.arg = Some(<<"A", "B">>)) => pure.out = Some(<<"A", "B">>)

C12_Witness ==
  /\ pure.fn = "normalize_score"
  /\ pure.step = 2
  /\ pure.out = Some(<<"A", "B">>)
  /\ pure.arg # pure.out
  /\ pure.again = pure.out

\* brand, some whitespace and model stand in the title from position i on,
\* with n characters of whitespace, in any case
BrandModelAt(title, brand, model, i, n) ==
  /\ i + Len(brand) + n + Len(model) - 1 <= Len(title)
  /\ Upper(Slice(title, i, i + Len(brand) - 1)) = Upper(brand)
  /\ \A k \in (i + Len(brand))..(i + Len(brand) + n - 1) : title[k] \in Whitespace
  /\ Upper(Slice(title, i + Len(brand) + n, i + Len(brand) + n + Len(model) - 1))
       = Upper(model)

HasBrandModel(title, brands, models) ==
  \E brand \in brands, model \in models, i \in 1..Len(title), n \in 1..Len(title) :
    BrandModelAt(title, brand, model, i, n)

IsGenesisModel(title) ==
  HasBrandModel(title, {<<"G", "E", "N", "E", "S", "I", "S">>, <<"je", "ne", "si", "seu">>},
                {GenesisCodes[i] : i \in 1..Len(GenesisCodes)})

IsTeslaModel(title) ==
  HasBrandModel(title, {<<"T", "E", "S", "L", "A">>},
                {<<"M", "O", "D", "E", "L">>, <<"mo", "del">>})

\* the tokens a title carries in brackets at its very beginning: one or none
BracketTokens(title) ==
  {Slice(title, 2, k - 1) :
     k \in {k \in 3..Len(title) :
              /\ title[1] = "["
              /\ title[k] = "]"
              /\ \A j \in 2..(k - 1) : title[j] # "]"}}

\* where the first word of a title begins and ends: one pair or none
FirstWordSpan(title) ==
  {ij \in (1..Len(title)) \X (1..Len(title)) :
     /\ ij[1] <= ij[2]
     /\ \A k \in 1..(ij[1] - 1) : title[k] \in Whitespace
     /\ \A k \in ij[1]..ij[2] : title[k] \notin Whitespace
     /\ ij[2] = Len(title) \/ title[ij[2] + 1] \in Whitespace}

\* the part of a word before its first "("
BareForm(w) ==
  Slice(w, 1, Min({k \in 1..Len(w) : w[k] = "("} \cup {Len(w) + 1}) - 1)

\* the ends of a parenthesis "(...)" with something in it that follows the
\* bare form at once: one position or none
QualifierEnds(w, b) ==
  {q \in (b + 3)..Len(w) :
     /\ w[b + 1] = "("
     /\ w[q] = ")"
     /\ \A j \in (b + 2)..(q - 1) : w[j] # ")"}

\* the bare form with the parenthesis that follows it, when there is one
QualifiedForm(w) ==
  IF QualifierEnds(w, Len(BareForm(w))) = {} THEN BareForm(w)
  ELSE Slice(w, 1, Min(QualifierEnds(w, Len(BareForm(w)))))

Extracted(label, remaining) == [label |-> label, remaining |-> remaining]

Alias(key) == DictGet(MANUFACTURER_LABEL_MAP, key, key)

IsAlias(key) == DictHas(MANUFACTURER_LABEL_MAP, key)

\* what the leading-word rule gives for the first word w and the rest
ByLeadingWord(title, w, rest) ==
  IF BareForm(w) = << >> THEN Extracted(None, title)
  ELSE IF IsAlias(QualifiedForm(w)) THEN Extracted(Some(Alias(QualifiedForm(w))), rest)
  ELSE IF IsAlias(BareForm(w)) THEN Extracted(Some(Alias(BareForm(w))), rest)
  ELSE Extracted(None, title)

\* what the rules give in their order
ByRuleOrder(title) ==
  IF IsGenesisModel(title) THEN {Extracted(Some(<<"je", "ne", "si", "seu">>), title)}
  ELSE IF IsTeslaModel(title) THEN {Extracted(Some(<<"te", "seul", "ra">>), title)}
  ELSE IF BracketTokens(title) # {}
  THEN {Extracted(Some(Alias(tok)), LStrip(Slice(title, Len(tok) + 3, Len(title)))) :
          tok \in BracketTokens(title)}
  ELSE IF FirstWordSpan(title) = {} THEN {Extracted(None, title)}
  ELSE {ByLeadingWord(title, Slice(title, ij[1], ij[2]),
                      LStrip(Slice(title, ij[2] + 1, Len(title)))) :
          ij \in FirstWordSpan(title)}

\* C13: the manufacturer extractor gives what its rules give in their order:
\* a Genesis or Tesla brand with one of its models anywhere in the title gives
\* that brand and the title as it was; otherwise a bracketed token at the
\* beginning gives its alias, or itself; otherwise the first word gives the
\* alias of its form with the parenthesis, or else of its bare form;
\* otherwise the result is None with the title as it was.
C13_RuleOrder ==
  (pure.fn = "_extract_manufacturer_from_title" /\ pure.step = 1)
    => pure.out \in ByRuleOrder(pure.arg)

\* a title in brackets, with a known first word behind them and a Genesis
\* model at the end, is answered by the first rule
C13_Witness ==
  /\ pure.fn = "_extract_manufacturer_from_title"
  /\ pure.step = 1
  /\ pure.arg = <<"[", "gi", "aa", "]", " ", "je", "ne", "si", "seu", " ", "G", "8", "0">>
  /\ pure.out = Extracted(Some(<<"je", "ne", "si", "seu">>), pure.arg)

\* a YYMMDD string that names a day of the calendar
ValidYymmdd(s) == ~_parse_yymmdd(s).raised

\* the day number of the day a valid YYMMDD string names
DayOf(s) == ToOrdinal(_parse_yymmdd(s).value)

\* the weekday of a day number: Monday is 0
WeekdayOfDay(n) == (n + 6) % 7

\* day b is the earliest Monday-to-Friday day after day a: the next day after
\* a Monday to Thursday, the following Monday after a Friday to Sunday
EarliestBusinessDayAfter(a, b) ==
  /\ b > a
  /\ WeekdayOfDay(b) <= 4
  /\ \A n \in (a + 1)..(b - 1) : WeekdayOfDay(n) >= 5
  /\ WeekdayOfDay(a) <= 3 => b = a + 1
  /\ WeekdayOfDay(a) >= 4 => WeekdayOfDay(b) = 0

\* next_business_day answered a valid date with the string of the earliest
\* business day after it
AnsweredNextBusinessDay ==
  /\ ~pure.out.raised
  /\ ValidYymmdd(pure.out.value)
  /\ EarliestBusinessDayAfter(DayOf(pure.arg), DayOf(pure.out.value))

\* C14 as stated: for every valid YYMMDD date, next_business_day returns the
\* earliest Monday-to-Friday date strictly after it.
C14_NextBusinessDayAll ==
  (pure.fn = "next_business_day" /\ pure.step = 1 /\ ValidYymmdd(pure.arg))
    => AnsweredNextBusinessDay

\* C14: for every valid YYMMDD date but 991231, whose next day lies in 2100,
\* next_business_day returns the earliest Monday-to-Friday date strictly
\* after it: the next day for Monday to Thursday, the following Monday for
\* Friday, Saturday and Sunday.
C14_NextBusinessDay ==
  (pure.fn = "next_business_day" /\ pure.step = 1 /\ ValidYymmdd(pure.arg)
     /\ pure.arg # <<"9", "9", "1", "2", "3", "1">>)
    => AnsweredNextBusinessDay

\* a Friday, the last but two of a month, is answered with the Monday that
\* begins the next month
C14_Witness ==
  /\ pure.fn = "next_business_day"
  /\ pure.step = 1
  /\ pure.arg = <<"2", "5", "1", "1", "2", "8">>
  /\ pure.out = [raised |-> FALSE, value |-> <<"2", "5", "1", "2", "0", "1">>]

\* the candidates are the n days before the mapped day, the nearest first
PrecedingDays(n) ==
  /\ ~pure.out.raised
  /\ Len(pure.out.value) = n
  /\ \A i \in 1..Len(pure.out.value) :
       /\ ValidYymmdd(pure.out.value[i])
       /\ DayOf(pure.out.value[i]) = DayOf(pure.arg) - i

\* the mapped date is valid and its weekday is among wds
MappedOn(wds) ==
  /\ pure.fn = "previous_source_candidates_for_mapped"
  /\ pure.step = 1
  /\ ValidYymmdd(pure.arg)
  /\ WeekdayOfDay(DayOf(pure.arg)) \in wds

\* C15 as stated: a Tuesday to Friday gives the previous day alone, a Monday
\* gives Sunday, Saturday and Friday before it in that order.
C15_PreviousCandidatesAll ==
  /\ MappedOn(1..4) => PrecedingDays(1)
  /\ MappedOn({0}) => PrecedingDays(3)

\* C15: a Tuesday to Friday gives the previous day alone; a Monday other
\* than 000103, whose Friday lies in 1999, gives Sunday, Saturday and Friday
\* before it in that order.
C15_PreviousCandidates ==
  /\ MappedOn(1..4) => PrecedingDays(1)
  /\ (MappedOn({0}) /\ pure.arg # <<"0", "0", "0", "1", "0", "3">>) => PrecedingDays(3)

\* the Monday of the tests, the first of a month
C15_Witness ==
  /\ MappedOn({0})
  /\ pure.arg = <<"2", "5", "1", "2", "0", "1">>
  /\ pure.out.value = << <<"2", "5", "1", "1", "3", "0">>, <<"2", "5", "1", "1", "2", "9">>, <<"2", "5", "1", "1", "2", "8">> >>

\* YYYY-MM-DD: ten characters, digits but for the two hyphens
IsoForm(d) ==
  /\ Len(d) = 10
  /\ \A i \in 1..Len(d) : IF i \in {5, 8} THEN d[i] = "-" ELSE d[i] \in Digits

SixDigits(s) == Len(s) = 6 /\ \A i \in 1..Len(s) : s[i] \in Digits

\* C16 as stated: iso_to_yymmdd(yymmdd_to_iso(s)) == s for every 6-digit
\* string s, and yymmdd_to_iso(iso_to_yymmdd(d)) == d for every string d of
\* the form YYYY-MM-DD.
C16_MutualInversesAll ==
  /\ (pure.fn = "yymmdd_to_iso" /\ pure.step = 2 /\ SixDigits(pure.arg))
       => pure.again = pure.arg
  /\ (pure.fn = "iso_to_yymmdd" /\ pure.step = 2 /\ IsoForm(pure.arg))
       => pure.again = pure.arg

\* C16: iso_to_yymmdd(yymmdd_to_iso(s)) == s for every 6-digit string s, and
\* yymmdd_to_iso(iso_to_yymmdd(d)) == d for every string d of the form
\* 20YY-MM-DD.
C16_MutualInverses ==
  /\ (pure.fn = "yymmdd_to_iso" /\ pure.step = 2 /\ SixDigits(pure.arg))
       => pure.again = pure.arg
  /\ (pure.fn = "iso_to_yymmdd" /\ pure.step = 2 /\ IsoForm(pure.arg)
        /\ Slice(pure.arg, 1, 2) = <<"2", "0">>)
       => pure.again = pure.arg

C16_Witness ==
  /\ pure.fn = "iso_to_yymmdd"
  /\ pure.step = 2
  /\ pure.arg = <<"2", "0", "2", "5", "-", "1", "2", "-", "2", "5">>
  /\ pure.out = <<"2", "5", "1", "2", "2", "5">>
  /\ pure.again = pure.arg

\* the last call read a body with status 200 whose hash is not the cached one
ReadNewContent ==
  /\ dl.last.body # None
  /\ \/ dl.last.cache_before = None
     \/ The(dl.last.cache_before).hash # _hash_bytes(The(dl.last.body).content)

\* the last call saved what it read: the file holds it, the cache entry
\* holds its hash, and the result names the file
SavedWhatItRead ==
  /\ dl.last.result.changed
  /\ dl.last.result.status = 200
  /\ dl.last.result.path = Some(AbsDest(dl.last.filename))
  /\ << AbsDest(dl.last.filename), The(dl.last.body).content >> \in dl.files
  /\ \A f \in dl.files : f[1] = AbsDest(dl.last.filename) => f[2] = The(dl.last.body).content
  /\ \A f \in dl.last.files_before : f[1] # AbsDest(dl.last.filename) => f \in dl.files
  /\ dl.cache # None
  /\ The(dl.cache).hash = _hash_bytes(The(dl.last.body).content)

\* the last call left everything as it was and reported no change
LeftAsItWas ==
  /\ ~dl.last.result.changed
  /\ dl.last.result.path = None
  /\ dl.cache = dl.last.cache_before
  /\ dl.files = dl.last.files_before

\* C20: download_if_changed writes the file and the cache entry only when it
\* read a body with status 200 whose hash differs from the cached hash, and
\* then returns changed=True with the saved path; in every other outcome it
\* returns changed=False with path None and leaves the cache and the saved
\* files as they were; a call made while the site still serves the content
\* the downloader last read never reports a change.
C20_WritesOnlyOnChange ==
  dl.called =>
    /\ IF ReadNewContent THEN SavedWhatItRead ELSE LeftAsItWas
    /\ (dl.last.seen_before # None /\ dl.last.seen_before = Some(dl.server.content))
         => ~dl.last.result.changed

\* a call that finds the content changed since the one it saved before
C20_Witness ==
  /\ dl.called
  /\ dl.last.cache_before # None
  /\ dl.last.result.changed
  /\ dl.cache # dl.last.cache_before

\* the request carries the configured token, as the Bearer token of the
\* Authorization header or in the X-Admin-Token header
CarriesAdminToken ==
  /\ admin.settings.ADMIN_TOKEN # << >>
  /\ \/ _extract_bearer_token(admin.request.authorization) = Some(admin.settings.ADMIN_TOKEN)
     \/ admin.request.x_admin_token = Some(admin.settings.ADMIN_TOKEN)

\* the route made no download and wrote nothing: the tables, the saved
\* files and the crawl cache are as they were
NothingDone ==
  /\ ~admin.downloaded
  /\ admin.auction_data = admin.before.auction_data
  /\ admin.auction_records = admin.before.auction_records
  /\ dl.files = admin.before.files
  /\ dl.cache = admin.before.cache

\* ADMIN_TOKEN is configured and the request has one of the two headers at
\* most, so that the token it carries is one
PlainRequest ==
  /\ admin.route # "none"
  /\ admin.settings.ADMIN_TOKEN # << >>
  /\ admin.request.authorization = None \/ admin.request.x_admin_token = None

\* C17: with ADMIN_TOKEN configured, admin_crawl and admin_ensure_date
\* answer 401 with no download and no storage write to a request that
\* carries no token or a token other than ADMIN_TOKEN, and a request that
\* carries the configured token as Bearer token or in X-Admin-Token passes
\* the token check.
C17_TokenGate ==
  PlainRequest =>
    /\ ~CarriesAdminToken => (admin.status = 401 /\ NothingDone)
    /\ CarriesAdminToken => admin.status # 401


\* ------------------------------------------------------------------------
\* logout and get_current_user
\* ------------------------------------------------------------------------

\* the request carried a token that was issued before the moment the logout
\* route last reported success to the token's user
IssuedBeforeLogout(A, token) ==
  /\ A.reported[token.sub] # None
  /\ \E t \in A.issued : t.token = token /\ t.at < The(A.reported[token.sub])

PresentedBeforeLogout ==
  /\ auth.route = "me"
  /\ auth.request.credentials # None
  /\ auth.read
  /\ auth.user # None
  /\ IssuedBeforeLogout(auth, The(auth.request.credentials))

\* C18: once the logout route has reported success to a user, a later request
\* that presents a token issued to that user before the logout is rejected
\* with 401 by get_current_user (the users table answering with the row).
C18_LogoutInvalidates ==
  PresentedBeforeLogout => auth.status = 401 /\ auth.body = None

\* get_current_user decoded a validly signed, unexpired token and read the
\* user's row
DecodedAndRead ==
  /\ auth.route = "me"
  /\ auth.request.credentials # None
  /\ The(auth.request.credentials).signed
  /\ auth.now < FromTimestamp(The(auth.request.credentials).exp)
  /\ auth.read
  /\ auth.user # None

StoredLogout == The(auth.user).last_logout_at

IatBeforeStoredLogout ==
  /\ StoredLogout # None
  /\ FromTimestamp(The(auth.request.credentials).iat) < The(StoredLogout)

\* C19: get_current_user rejects with 401 every validly signed, unexpired
\* token whose iat is earlier than the last_logout_at of the user's row, and
\* returns the token's sub and email as id and email when the row has no
\* last_logout_at.
C19_LogoutCheck ==
  DecodedAndRead =>
    /\ IatBeforeStoredLogout => auth.status = 401 /\ auth.body = None
    /\ StoredLogout = None =>
         /\ auth.status = 200
         /\ auth.body = Some([id |-> The(auth.request.credentials).sub,
                              email |-> The(auth.request.credentials).email])

\* a token is rejected whose iat is the very second the logout fell inside
C19_Witness ==
  /\ DecodedAndRead
  /\ IatBeforeStoredLogout
  /\ The(auth.request.credentials).iat = NumericDate(The(StoredLogout))
  /\ auth.status = 401


\* ------------------------------------------------------------------------
\* admin_ensure_date and admin_crawl after the token check
\* ------------------------------------------------------------------------

\* admin_ensure_date answered a request that passed the token check
EnsureAnswered ==
  /\ admin.route = "ensure"
  /\ TokenCheck(admin, admin.request) = None

\* ... with Supabase enabled and a source date whose next business day exists
EnsureRan ==
  /\ EnsureAnswered
  /\ admin.settings.SUPABASE_ENABLED
  /\ admin.date # None
  /\ ~next_business_day(The(admin.date)).raised

TargetDate == next_business_day(The(admin.date)).value

\* a document of the target date was stored before the request
DocBefore == get_csv(admin.before.auction_data, TargetDate) # None

\* the local source file of the date, as it was before the request
LocalBefore ==
  FileContent(admin.before.files,
              AbsDest(FileName("auction_data_", The(admin.date), "csv")))

CallNames == {admin.calls[i][1] : i \in 1..Len(admin.calls)}

Uploads == "save_csv" \in CallNames \/ "save_records" \in CallNames

Downloads == "download" \in CallNames

\* the route says the document was there, and did nothing else
SaysExistsBefore ==
  /\ admin.status = 200
  /\ admin.body = AdminBody(TRUE, "none", FALSE, FALSE)
  /\ ~Uploads
  /\ NothingDone

\* the second call is the upload of the local file
TriesLocal == Len(admin.calls) >= 2 /\ admin.calls[2][1] = "save_csv"

\* the local file was uploaded and the route ended there
UploadedLocal ==
  /\ admin.status = 200
  /\ admin.body # None
  /\ The(admin.body).source = "local"
  /\ get_csv(admin.auction_data, TargetDate) = LocalBefore
  /\ ~Downloads

\* the download was uploaded
UploadedDownload ==
  /\ admin.body # None
  /\ The(admin.body).source = "download"
  /\ get_csv(admin.auction_data, TargetDate)
       = ResultContent([result |-> dl.last.result, files |-> dl.files])

DisabledDoesNothing ==
  (EnsureAnswered /\ ~admin.settings.SUPABASE_ENABLED) =>
    (admin.status = 400 /\ admin.calls = << >> /\ NothingDone)

Found == DocBefore /\ admin.calls[1] = Returned("get_csv")

CrawlGotContent ==
  /\ admin.route = "crawl"
  /\ TokenCheck(admin, admin.request) = None
  /\ admin.settings.SUPABASE_ENABLED
  /\ admin.downloaded
  /\ ResultContent([result |-> dl.last.result, files |-> dl.files]) # None

CrawlContent == ResultContent([result |-> dl.last.result, files |-> dl.files])

\* the hash of the content is not the hash of what is stored for the date
HashChanged == get_csv(admin.before.auction_data, TargetDate) # CrawlContent

RecordsMissing == get_csv(admin.before.auction_records, TargetDate) = None

\* auction_records_repo.save_csv was called, and when it returned the
\* records of the target date are the content
SavedToRecords ==
  /\ \E i \in 1..Len(admin.calls) :
       /\ admin.calls[i][1] = "save_records"
       /\ admin.calls[i][2] =>
            get_csv(admin.auction_records, TargetDate) = CrawlContent
  /\ The(admin.body).uploaded_to_auction_records
       = (Returned("save_records") \in {admin.calls[i] : i \in 1..Len(admin.calls)})

ListReturned == pure.fn = "list_available_dates" /\ pure.step >= 1

ListOut == The(pure.out)

LocalMode == ~pure.arg.store.SUPABASE_ENABLED

\* the six characters after the prefix of a name
NamedDate(n) ==
  IF Len(n) >= Len(FilePrefix) + 6
  THEN SubSeq(n, Len(FilePrefix) + 1, Len(FilePrefix) + 6)
  ELSE << >>

\* the names auction_data_YYMMDD.csv of the directory whose YYMMDD is a date
SourceFiles ==
  {n \in pure.arg.store.files :
     n = CsvName(NamedDate(n)) /\ SixDigits(NamedDate(n))
       /\ ValidYymmdd(NamedDate(n))}

\* no file names a date and, with Supabase enabled, both tables are empty
NoSource ==
  /\ SourceFiles = {}
  /\ LocalMode
       \/ (pure.arg.store.auction_records = {}
             /\ pure.arg.store.auction_data = {})

AllIso == \A i \in 1..Len(ListOut) : IsoForm(ListOut[i])

NewestFirst ==
  \A i \in 1..(Len(ListOut) - 1) : StrLess(ListOut[i + 1], ListOut[i])

AtMostLimit == pure.arg.limit # None => Len(ListOut) <= The(pure.arg.limit)

AtMostPositiveLimit ==
  (pure.arg.limit # None /\ The(pure.arg.limit) >= 1)
    => Len(ListOut) <= The(pure.arg.limit)

\* the dates the files stand for, as the files name them
LocalDays ==
  {next_business_day(NamedDate(n)).value : n \in SourceFiles}

\* C22: list_available_dates returns dates in YYYY-MM-DD format sorted newest
\* first, at most `limit` of them when a limit is given, and the empty list
\* when no source exists; in local-file mode each file auction_data_YYMMDD.csv
\* contributes the next business day of its source date.
C22_ListAvailableDates ==
  ListReturned =>
    /\ AllIso
    /\ NewestFirst
    /\ AtMostLimit
    /\ NoSource => ListOut = << >>
    /\ (LocalMode /\ pure.arg.limit = None)
         => {ListOut[i] : i \in 1..Len(ListOut)}
              = {yymmdd_to_iso(d) : d \in LocalDays}

\* what list_available_dates does keep of it: the order, a limit of one or
\* more, the empty list, and in local mode the next business days, in the
\* six digits of the file names
ListKept ==
  ListReturned =>
    /\ NewestFirst
    /\ AtMostPositiveLimit
    /\ NoSource => ListOut = << >>
    /\ (LocalMode /\ pure.arg.limit = None)
         => {ListOut[i] : i \in 1..Len(ListOut)} = LocalDays

\* a local directory with source files is listed in six digits
ListedSixDigits ==
  /\ ListReturned
  /\ LocalMode
  /\ Len(ListOut) >= 2
  /\ \A i \in 1..Len(ListOut) : SixDigits(ListOut[i])

\* ------------------------------------------------------------------------
\* C28: the source date is among the candidates of its mapped date
\* ------------------------------------------------------------------------

\* get_csv_path_for_date was called in local mode for a listed date
PathLooked == pure.fn = "list_available_dates" /\ pure.step = 2 /\ LocalMode

PathResult == The(pure.again)

ScoreAt(k) ==
  TrimScore(trimcall.trims[k], TitleYear(trimcall.title), trimcall.title,
            trimcall.fuel_type)

MaxScore == Max({ScoreAt(k) : k \in 1..Len(trimcall.trims)})

\* the first place of the list where the maximum score stands
FirstOfMax == Min({k \in 1..Len(trimcall.trims) : ScoreAt(k) = MaxScore})

\* C23: for a non-empty trim list in which at least one trim scores zero or
\* more, _find_best_trim returns a trim with the maximum score, and among
\* trims tied for the maximum the one that comes first in the list.
C23_FirstOfMaximum ==
  (/\ trimcall.called
   /\ trimcall.trims # << >>
   /\ MaxScore >= 0)
    => trimcall.result = Some(trimcall.trims[FirstOfMax])

\* two different trims tie for a maximum above zero and the first is returned
C23_Witness ==
  /\ trimcall.called
  /\ Len(trimcall.trims) = 2
  /\ trimcall.trims[1] # trimcall.trims[2]
  /\ ScoreAt(1) = ScoreAt(2)
  /\ ScoreAt(1) > 0
  /\ trimcall.result = Some(trimcall.trims[1])

\* N stands in the text as a separate token
HasTokenN(text) == _check_keyword_in_title(text, << "N" >>)

\* C24: the keyword N counts as present only where it stands as a separate
\* token, in the title and in the trim name alike: a trim whose name has N
\* only inside a longer alphanumeric code gets no keyword bonus, so that with
\* no year and no fuel hint to tell the trims apart the first trim is
\* returned.
C24_KeywordToken ==
  trimcall.called
    => /\ \A k \in 1..Len(trimcall.trims) :
            ~HasTokenN(trimcall.trims[k].trim)
              => KeywordScore(trimcall.trims[k].trim, trimcall.title) <= 0
       /\ (/\ trimcall.trims # << >>
           /\ trimcall.fuel_type = None
           /\ TitleYear(trimcall.title) = None
           /\ \A k \in 1..Len(trimcall.trims) : ~HasTokenN(trimcall.trims[k].trim))
            => trimcall.result = Some(trimcall.trims[1])

\* ------------------------------------------------------------------------
\* C26: _extract_fuel_type on the keys of FUEL_TYPE_ALIASES
\* ------------------------------------------------------------------------

\* C26: for every key k of FUEL_TYPE_ALIASES, _extract_fuel_type applied to
\* the title k returns FUEL_TYPE_ALIASES[k], the value normalize_fuel(k)
\* returns.
C26_ExtractorAgreesWithAliases ==
  /\ (pure.fn = "_extract_fuel_type" /\ pure.step >= 1)
       => pure.out = Some(DictGet(FUEL_TYPE_ALIASES, pure.arg, pure.arg))
  /\ (pure.fn = "_extract_fuel_type" /\ pure.step = 2)
       => pure.out = pure.again

\* C26, narrowed: they agree on every key but HEV, (HEV), PHEV and (PHEV)
ExtractorAgreesButHev ==
  (pure.fn = "_extract_fuel_type" /\ pure.step = 2
     /\ ~Contains(<<"H", "E", "V">>, pure.arg))
    => /\ pure.out = pure.again
       /\ pure.out = Some(DictGet(FUEL_TYPE_ALIASES, pure.arg, pure.arg))

\* ------------------------------------------------------------------------
\* C27: the ids of a MatchResult and the hierarchy of the catalog
\* ------------------------------------------------------------------------

\* the manufacturers of a catalog that carry the id
ManufacturersWithId(data, id) ==
  {AllManufacturers(data)[i] : i \in {k \in 1..Len(AllManufacturers(data)) :
                                        AllManufacturers(data)[k].id = id}}

\* the models of a catalog that carry the id
ModelsWithId(data, id) ==
  UNION {{mfr.models[k] : k \in {j \in 1..Len(mfr.models) : mfr.models[j].id = id}} :
           mfr \in {AllManufacturers(data)[i] : i \in 1..Len(AllManufacturers(data))}}

TrimIdsOf(model) == {model.trims[i].id : i \in 1..Len(model.trims)}

\* the model of the record is a model of the manufacturer of the record
ModelUnderManufacturer(r, data) ==
  r.model_id # None
    => /\ r.manufacturer_id # None
       /\ \E mfr \in ManufacturersWithId(data, The(r.manufacturer_id)) :
            The(r.model_id) \in ModelIdsOf(mfr)

\* the trim of the record is a trim of the model of the record
TrimUnderModel(r, data) ==
  r.trim_id # None
    => /\ r.model_id # None
       /\ \E model \in ModelsWithId(data, The(r.model_id)) :
            The(r.trim_id) \in TrimIdsOf(model)

\* C27: in every MatchResult trim_id is set only if model_id is set and names
\* a trim of that model, and model_id, when set, names a model of the
\* manufacturer named by manufacturer_id.
C27_Hierarchy ==
  (last.op = "match_car_model" /\ ~last.raised /\ last.catalog # None)
    => /\ TrimUnderModel(last.match.value, The(last.catalog))
       /\ ModelUnderManufacturer(last.match.value, The(last.catalog))

\* the trim is always under the model, and the model under the manufacturer
\* whenever C2 holds of the call
HierarchyButForeignModel ==
  (last.op = "match_car_model" /\ ~last.raised /\ last.catalog # None)
    => /\ TrimUnderModel(last.match.value, The(last.catalog))
       /\ ModelUnderManufacturer(last.match.value, The(last.catalog))
            \/ ~C2_OwnModelsOnly

\* ------------------------------------------------------------------------
\* C29: a token created after the most recent logout
\* ------------------------------------------------------------------------

\* the token of the request was handed out after the last_logout_at that the
\* users table holds for its user, or the table holds none
IssuedAfterLogout(A, token) ==
  \E t \in A.issued :
    /\ t.token = token
    /\ A.users[token.sub] = None \/ t.at > The(A.users[token.sub])

\* C29: a token created by create_access_token after the user's most recent
\* logout is accepted by get_current_user until it expires (the users table
\* answering with the row).
C29_NewTokenAccepted ==
  (DecodedAndRead /\ IssuedAfterLogout(auth, The(auth.request.credentials)))
    => /\ auth.status = 200
       /\ auth.body = Some([id |-> The(auth.request.credentials).sub,
                            email |-> The(auth.request.credentials).email])

\* the same, for tokens created in a later second than the logout
NewTokenOfLaterSecond ==
  (/\ DecodedAndRead
   /\ IssuedAfterLogout(auth, The(auth.request.credentials))
   /\ StoredLogout # None
        => The(auth.request.credentials).iat > NumericDate(The(StoredLogout)))
    => auth.status = 200

\* ------------------------------------------------------------------------
\* C30: the records of _parse_csv_content
\* ------------------------------------------------------------------------

ParsedContent == pure.fn = "_parse_csv_content" /\ pure.step = 1 /\ ~pure.out.raised

\* the record of the k-th row of the file
RecordOfRow(k) ==
  The(_parse_csv_row(pure.arg[k], D251128, CsvName(D251128)).value)

RecordKey(record) ==
  << record.auction_date, record.sell_number, record.auction_house >>

\* the rows whose key no earlier row of the file has
FirstOfKey ==
  {k \in 1..Len(pure.arg) :
     \A j \in 1..(k - 1) : RecordKey(RecordOfRow(j)) # RecordKey(RecordOfRow(k))}

\* the n-th of them in file order
NthFirstOfKey(n) ==
  CHOOSE k \in FirstOfKey : Cardinality({j \in FirstOfKey : j < k}) = n - 1

\* C30: _parse_csv_content never returns two records with the same
\* (auction_date, sell_number, auction_house) key: of several rows sharing a
\* key only the first in file order is kept, and the returned records keep
\* file order.
C30_FirstOfEachKey ==
  ParsedContent
    => /\ \A i, j \in 1..Len(pure.out.value) :
            RecordKey(pure.out.value[i]) = RecordKey(pure.out.value[j]) => i = j
       /\ Len(pure.out.value) = Cardinality(FirstOfKey)
       /\ \A n \in 1..Len(pure.out.value) :
            pure.out.value[n] = RecordOfRow(NthFirstOfKey(n))

\* of three rows the first and the third share a key written in two ways, and
\* the first and the second are returned
C30_Witness ==
  /\ ParsedContent
  /\ Len(pure.arg) = 3
  /\ pure.arg[1].sell_number # pure.arg[3].sell_number
  /\ pure.arg[1].auction_name # pure.arg[3].auction_name
  /\ FirstOfKey = {1, 2}
  /\ pure.out.value = << RecordOfRow(1), RecordOfRow(2) >>

====
